---- MODULE Spec2Model ----
(***************************************************************************)
(* A model of mdbook-qr: the marker substitution engine (src/src/html.rs)  *)
(* and the profile resolver (src/src/config.rs, src/src/preprocessor.rs).  *)
(*                                                                         *)
(* Text is a sequence of one-character strings; every character is one     *)
(* byte (ASCII), so byte offsets and character offsets coincide.           *)
(* Option<T> is a sequence of length at most one: None is << >> and        *)
(* Some(v) is <<v>>.                                                       *)
(***************************************************************************)
EXTENDS Integers, Sequences, FiniteSets, TLC

VARIABLES
    pc,             \* position of the running operation
    content,        \* replace_markers_outside_code: the document text
    marker,         \* the marker searched for
    replacement,    \* the text put in its place
    lines,          \* content.split_inclusive('\n')
    idx,            \* index of the line the `for` loop reads next
    out,            \* the output built so far
    in_fence,       \* fence tracking (html.rs:14)
    fence_char,     \* (html.rs:15)
    fence_len,      \* (html.rs:16)
    line,           \* replace_outside_inline_code: its argument
    result,         \* replace_outside_inline_code: its return value, an Option
    base,           \* QrConfig::inherit: its first argument
    child,          \* QrConfig::inherit: its second argument
    merged,         \* QrConfig::inherit: its return value, an Option
    ctx_cfg,        \* config_from_ctx(ctx): the deserialized [preprocessor.qr]
    ctx_custom,     \* ctx.config: the bare preprocessor.qr.custom table
    profiles,       \* run_impl: the profiles vector (preprocessor.rs:138)
    valid_profiles, \* QrConfig::profiles: its return value, an Option
    book,           \* book.sections (mdbook::book::Book)
    fs,             \* the files under ctx.root: path to bytes
    github_repository, \* the environment variable GITHUB_REPOSITORY, an Option
    localhost_qr,   \* resolve_url: its second argument
    on_failure,     \* cfg.on_failure (preprocessor.rs:119)
    qr_table,       \* [preprocessor.qr] of book.toml: absent, malformed or parsed
    next_profile,   \* index of the profile the loop of run_impl is at
    path_to_marker, \* run_impl: the collision map (preprocessor.rs:185)
    warnings,       \* the warnings logged so far
    resolved,       \* the profiles resolve_url was called for
    encoded,        \* the profiles write_qr_png was called for
    injected,       \* the profiles inject_marker_relative was called for
    stdout,         \* the book written to the output, an Option
    fit_in,         \* pass_fit_dims: its argument
    dims_out,       \* pass_fit_dims: its return value, an Option
    flags_in,       \* ShapeFlags::to_shape: self
    shape_out,      \* ShapeFlags::to_shape: its return value, an Option
    scanned,        \* duplicate_marker_from: the profiles it is given
    dupe_out,       \* duplicate_marker_from: its return value, an Option
    marker_in,      \* slug_from_marker: its argument
    slug_out,       \* slug_from_marker: its return value, an Option
    path_in,        \* resolve_profile_path: its arguments
    path_out        \* resolve_profile_path: its return value, an Option

substVars == <<content, lines, idx, out, in_fence, fence_char, fence_len>>
inlineVars == <<line, result>>
inheritVars == <<base, child, merged>>
configVars == <<ctx_cfg, ctx_custom, profiles, valid_profiles>>
runVars ==
    <<book, fs, github_repository, localhost_qr, on_failure, qr_table,
      next_profile, path_to_marker, warnings, resolved, encoded, injected, stdout>>
pathVars == <<marker_in, slug_out, path_in, path_out>>
utilVars == <<fit_in, dims_out, flags_in, shape_out, scanned, dupe_out, pathVars>>
vars == <<pc, marker, replacement, substVars, inlineVars, inheritVars, configVars, runVars, utilVars>>

----------------------------------------------------------------------------
(* Option and text helpers *)

None == << >>
Some(v) == <<v>>

NL == "\n"
\* the backtick character (written out: a string of the module cannot hold it)
BT == "BACKTICK"
TILDE == "~"
NUL == "\\0"

\* str::starts_with at (1-based) offset i
StartsWithAt(s, i, p) ==
    /\ i + Len(p) - 1 <= Len(s)
    /\ SubSeq(s, i, i + Len(p) - 1) = p

\* str::contains
Contains(s, p) == \E i \in 1..(Len(s) + 1) : StartsWithAt(s, i, p)

\* length of the run of character c that starts at offset i of s
RECURSIVE RunFrom(_, _, _)
RunFrom(s, i, c) ==
    IF i <= Len(s) /\ s[i] = c THEN 1 + RunFrom(s, i + 1, c) ELSE 0

Upper == <<"A","B","C","D","E","F","G","H","I","J","K","L","M",
           "N","O","P","Q","R","S","T","U","V","W","X","Y","Z">>
Lower == <<"a","b","c","d","e","f","g","h","i","j","k","l","m",
           "n","o","p","q","r","s","t","u","v","w","x","y","z">>

\* char::to_ascii_lowercase
char_to_ascii_lowercase(c) ==
    IF \E k \in 1..26 : Upper[k] = c
    THEN Lower[CHOOSE k \in 1..26 : Upper[k] = c]
    ELSE c

\* str::to_ascii_lowercase
to_ascii_lowercase(s) == [k \in 1..Len(s) |-> char_to_ascii_lowercase(s[k])]

WhiteSpace == {" ", "\t", "\r", NL}

\* str::trim
RECURSIVE trim_start(_)
trim_start(s) ==
    IF s # << >> /\ s[1] \in WhiteSpace THEN trim_start(Tail(s)) ELSE s

RECURSIVE trim_end(_)
trim_end(s) ==
    IF s # << >> /\ s[Len(s)] \in WhiteSpace
    THEN trim_end(SubSeq(s, 1, Len(s) - 1))
    ELSE s

trim(s) == trim_end(trim_start(s))

\* a changed split_inclusive: the text is not split
split_inclusive_whole(s) == IF s = << >> THEN << >> ELSE <<s>>

\* str::split_inclusive('\n'): each piece ends with its newline, except
\* possibly the last; an empty text has no piece
RECURSIVE split_inclusive(_)
split_inclusive(s) ==
    IF s = << >> THEN << >>
    ELSE IF \E k \in 1..Len(s) : s[k] = NL
         THEN LET k == CHOOSE k \in 1..Len(s) :
                          s[k] = NL /\ \A j \in 1..(k - 1) : s[j] # NL
              IN  <<SubSeq(s, 1, k)>> \o split_inclusive(SubSeq(s, k + 1, Len(s)))
         ELSE <<s>>

----------------------------------------------------------------------------
(* html.rs: parse_fence *)

\* up to three leading spaces are stripped (html.rs:21-24)
strip_lead(l) ==
    IF StartsWithAt(l, 1, <<" ", " ", " ">>) THEN SubSeq(l, 4, Len(l))
    ELSE IF StartsWithAt(l, 1, <<" ", " ">>) THEN SubSeq(l, 3, Len(l))
    ELSE IF StartsWithAt(l, 1, <<" ">>) THEN SubSeq(l, 2, Len(l))
    ELSE l

\* the shortest run that makes a delimiter (html.rs:39)
MinFenceRun == 3

parse_fence(l) ==
    LET trimmed_lead == strip_lead(l) IN
    IF trimmed_lead = << >> THEN None
    ELSE LET first == trimmed_lead[1] IN
         IF first # BT /\ first # TILDE THEN None
         ELSE LET i == RunFrom(trimmed_lead, 1, first) IN
              IF i < MinFenceRun THEN None
              ELSE Some([ch |-> first, run_len |-> i,
                         info |-> SubSeq(trimmed_lead, i + 1, Len(trimmed_lead))])

Admonish == <<"a","d","m","o","n","i","s","h">>

\* a changed is_admonish: the keyword is matched in lower case only
is_admonish_case_sensitive(info) == StartsWithAt(trim(info), 1, Admonish)

\* html.rs:125-126
is_admonish(info) == StartsWithAt(to_ascii_lowercase(trim(info)), 1, Admonish)

\* a changed closes_fence: the fence character is not compared
closes_fence_any_char(ch, run_len, fc, fl) == run_len >= fl

\* html.rs:113: does a delimiter (ch, run_len) close the fence (fc, fl)?
closes_fence(ch, run_len, fc, fl) == ch = fc /\ run_len >= fl

----------------------------------------------------------------------------
(* html.rs: replace_outside_inline_code *)

\* a changed span_after_run: any run closes an open span
span_after_run_any_closes(inline_bt_count, count) ==
    IF inline_bt_count = None THEN Some(count) ELSE None

\* html.rs:74-78: the inline span state after a backtick run of `count`
span_after_run(inline_bt_count, count) ==
    IF inline_bt_count = None THEN Some(count)
    ELSE IF inline_bt_count = Some(count) THEN None
    ELSE inline_bt_count

\* a changed after_marker: the scan resumes one character on
after_marker_one(i, m) == i + 1

\* html.rs:87: where the scan resumes after a marker found at i
after_marker(i, m) == i + Len(m)

\* html.rs:57-94: the while loop, from offset i with the span state and the
\* result built so far
RECURSIVE inline_loop(_, _, _, _, _, _)
inline_loop(l, m, repl, i, inline_bt_count, res) ==
    IF i > Len(l) THEN res
    ELSE IF l[i] = BT
         THEN LET count == RunFrom(l, i, BT)
                  j == i + count
              IN  inline_loop(l, m, repl, j,
                              span_after_run(inline_bt_count, count),
                              res \o SubSeq(l, i, j - 1))
         ELSE IF inline_bt_count = None /\ StartsWithAt(l, i, m)
              THEN inline_loop(l, m, repl, after_marker(i, m),
                               inline_bt_count, res \o repl)
              ELSE inline_loop(l, m, repl, i + 1, inline_bt_count,
                               res \o <<l[i]>>)

replace_outside_inline_code(l, m, repl) ==
    inline_loop(l, m, repl, 1, None, << >>)

----------------------------------------------------------------------------
(* config.rs: Profile, QrConfig *)

\* Option::or, Option::or_else
or(a, b) == IF a # None THEN a ELSE b

\* ShapeFlags::default (config.rs:58-67)
ShapeFlags_default ==
    [square |-> FALSE, circle |-> FALSE, rounded_square |-> FALSE,
     vertical |-> FALSE, horizontal |-> FALSE, diamond |-> FALSE]

\* FitConfig::default (config.rs:46-52)
FitConfig_default == [width |-> None, height |-> None]

\* Profile::default (config.rs:102-129)
Profile_default ==
    [marker |-> None, qr_path |-> None, enable |-> None, url |-> None,
     fit |-> FitConfig_default, margin |-> None, shape |-> ShapeFlags_default,
     background |-> None, module |-> None,
     background_rgba |-> None, module_rgba |-> None]

\* a changed any_set: the square flag is not looked at
any_set_without_square(sh) ==
    sh.circle \/ sh.rounded_square \/ sh.vertical \/ sh.horizontal \/ sh.diamond

\* ShapeFlags::any_set (config.rs:88-95)
any_set(sh) ==
    sh.square \/ sh.circle \/ sh.rounded_square \/ sh.vertical
        \/ sh.horizontal \/ sh.diamond

\* a changed inherit: the output path falls back to the base's
inherit_path_from_base(b, c) ==
    [marker |-> c.marker,
     qr_path |-> or(c.qr_path, b.qr_path),
     enable |-> or(c.enable, b.enable),
     url |-> or(c.url, b.url),
     fit |-> [width |-> or(c.fit.width, b.fit.width),
              height |-> or(c.fit.height, b.fit.height)],
     margin |-> or(c.margin, b.margin),
     shape |-> IF any_set(c.shape) THEN c.shape ELSE b.shape,
     background |-> or(c.background, b.background),
     module |-> or(c.module, b.module),
     background_rgba |-> or(c.background_rgba, b.background_rgba),
     module_rgba |-> or(c.module_rgba, b.module_rgba)]

\* QrConfig::inherit (config.rs:232-253)
inherit(b, c) ==
    [marker |-> c.marker,
     qr_path |-> c.qr_path,
     enable |-> or(c.enable, b.enable),
     url |-> or(c.url, b.url),
     fit |-> [width |-> or(c.fit.width, b.fit.width),
              height |-> or(c.fit.height, b.fit.height)],
     margin |-> or(c.margin, b.margin),
     shape |-> IF any_set(c.shape) THEN c.shape ELSE b.shape,
     background |-> or(c.background, b.background),
     module |-> or(c.module, b.module),
     background_rgba |-> or(c.background_rgba, b.background_rgba),
     module_rgba |-> or(c.module_rgba, b.module_rgba)]

DefaultMarker == "{{QR_CODE}}"

\* the margin of QrConfig::default (config.rs:195)
DefaultMargin == 2

\* QrConfig::default (config.rs:189-203)
QrConfig_default ==
    [enable |-> Some(TRUE), url |-> None, qr_path |-> None,
     fit |-> FitConfig_default, margin |-> Some(DefaultMargin),
     shape |-> ShapeFlags_default,
     background |-> Some("#FFFFFFFF"), module |-> Some("#000000FF"),
     background_rgba |-> None, module_rgba |-> None,
     custom |-> << >>]

\* a changed is_enabled: a named profile that sets enable switches the run on
is_enabled_by_custom(c) ==
    IF c.enable = None THEN TRUE
    ELSE c.enable[1] \/ \E k \in DOMAIN c.custom : c.custom[k].enable = Some(TRUE)

\* QrConfig::is_enabled (config.rs:208-210)
is_enabled(c) == IF c.enable = None THEN TRUE ELSE c.enable[1]

\* QrConfig::default_profile (config.rs:213-227)
default_profile(c) ==
    [marker |-> Some(DefaultMarker), qr_path |-> c.qr_path, enable |-> c.enable,
     url |-> c.url, fit |-> c.fit, margin |-> c.margin, shape |-> c.shape,
     background |-> c.background, module |-> c.module,
     background_rgba |-> c.background_rgba, module_rgba |-> c.module_rgba]

\* the byte of a letter
CharCode(c) ==
    IF \E k \in 1..26 : Upper[k] = c
    THEN 64 + (CHOOSE k \in 1..26 : Upper[k] = c)
    ELSE 96 + (CHOOSE k \in 1..26 : Lower[k] = c)

\* the order of String, which the BTreeMap of config.rs:180 keeps its keys in
RECURSIVE str_lt(_, _)
str_lt(a, b) ==
    IF b = << >> THEN FALSE
    ELSE IF a = << >> THEN TRUE
    ELSE IF CharCode(a[1]) # CharCode(b[1]) THEN CharCode(a[1]) < CharCode(b[1])
    ELSE str_lt(Tail(a), Tail(b))

\* a changed btree_keys: the keys come in descending order
RECURSIVE btree_keys_descending(_)
btree_keys_descending(D) ==
    IF D = {} THEN << >>
    ELSE LET last == CHOOSE n \in D : \A m \in D \ {n} : str_lt(m, n)
         IN  <<last>> \o btree_keys_descending(D \ {last})

\* the keys of a BTreeMap in the order its iterator yields them
RECURSIVE btree_keys(_)
btree_keys(D) ==
    IF D = {} THEN << >>
    ELSE LET first == CHOOSE n \in D : \A m \in D \ {n} : str_lt(n, m)
         IN  <<first>> \o btree_keys(D \ {first})

\* config.rs:271-275: the loop over the customs whose keys are ks
RECURSIVE profiles_loop(_, _, _)
profiles_loop(b, custom, ks) ==
    IF ks = << >> THEN << >>
    ELSE LET p == custom[ks[1]] IN
         (IF p.marker # None THEN <<inherit(b, p)>> ELSE << >>)
             \o profiles_loop(b, custom, Tail(ks))

\* QrConfig::profiles (config.rs:267-277)
QrConfig_profiles(c) ==
    LET b == default_profile(c) IN
    <<b>> \o profiles_loop(b, c.custom, btree_keys(DOMAIN c.custom))

----------------------------------------------------------------------------
(* preprocessor.rs: run_impl, up to the profiles vector *)

\* preprocessor.rs:117
cfg == IF ctx_cfg = None THEN QrConfig_default ELSE ctx_cfg[1]

\* a changed has_bare_custom: the named entries are not looked at
has_bare_custom_with_named == ctx_custom # None

\* preprocessor.rs:125-132
has_bare_custom == ctx_custom # None /\ DOMAIN cfg.custom = {}

\* load_custom_defaults (preprocessor.rs:55-114): the primitives of the bare
\* custom table, as a Profile without a marker
load_custom_defaults(t) ==
    IF t = None THEN None
    ELSE Some([marker |-> None, qr_path |-> t[1].qr_path, enable |-> t[1].enable,
               url |-> t[1].url, fit |-> t[1].fit, margin |-> t[1].margin,
               shape |-> t[1].shape,
               background |-> t[1].background, module |-> t[1].module,
               background_rgba |-> None, module_rgba |-> None])

\* preprocessor.rs:158-169: the effective profile of one named custom
effective_profile(default_p, custom_defaults, ch) ==
    LET eff == inherit(default_p, ch) IN
    IF custom_defaults = None THEN eff
    ELSE LET over == inherit(custom_defaults[1], eff) IN
         [over EXCEPT !.marker = ch.marker,
                      !.qr_path = IF ch.qr_path # None THEN ch.qr_path ELSE @]

\* preprocessor.rs:152-171: the loop over the named customs
RECURSIVE customs_loop(_, _, _, _)
customs_loop(default_p, custom_defaults, custom, ks) ==
    IF ks = << >> THEN << >>
    ELSE LET ch == custom[ks[1]] IN
         (IF ch.marker = None THEN << >>
          ELSE <<effective_profile(default_p, custom_defaults, ch)>>)
             \o customs_loop(default_p, custom_defaults, custom, Tail(ks))

\* preprocessor.rs:137-171
build_profiles ==
    LET default_p == default_profile(cfg) IN
    (IF ~has_bare_custom THEN <<default_p>> ELSE << >>)
        \o customs_loop(default_p, load_custom_defaults(ctx_custom),
                        cfg.custom, btree_keys(DOMAIN cfg.custom))

\* the variables of QrConfig::inherit and of run_impl before they run
InheritIdle ==
    /\ base = Profile_default
    /\ child = Profile_default
    /\ merged = None

ConfigIdle ==
    /\ ctx_cfg = None
    /\ ctx_custom = None
    /\ profiles = << >>
    /\ valid_profiles = None

\* run_impl is not running
RunIdle ==
    /\ book = << >>
    /\ fs = << >>
    /\ github_repository = None
    /\ localhost_qr = FALSE
    /\ on_failure = "Continue"
    /\ qr_table = "absent"
    /\ next_profile = 1
    /\ path_to_marker = << >>
    /\ warnings = << >>
    /\ resolved = << >>
    /\ encoded = << >>
    /\ injected = << >>
    /\ stdout = None


\* the functions of util.rs and config.rs are not called
\* slug_from_marker and resolve_profile_path are not called
PathIdle ==
    /\ marker_in = << >>
    /\ slug_out = None
    /\ path_in = [src_dir |-> << >>, qr_path |-> None, marker |-> << >>]
    /\ path_out = None

UtilIdle ==
    /\ fit_in = FitConfig_default
    /\ dims_out = None
    /\ flags_in = ShapeFlags_default
    /\ shape_out = None
    /\ scanned = << >>
    /\ dupe_out = None
    /\ PathIdle

----------------------------------------------------------------------------
(* Inputs *)

MarkerQR == <<"{","{","Q","R","}","}">>
MarkerQQ == <<"Q","Q">>
MarkerQx == <<"Q","x">>
ImgTag == <<"<","i","m","g",">">>

\* all sequences over A of length at most n
SeqsUpTo(A, n) == UNION {[1..k -> A] : k \in 0..n}

\* the two halves of a line of a document: its body and its newline
line_body(l) ==
    IF l # << >> /\ l[Len(l)] = NL THEN SubSeq(l, 1, Len(l) - 1) ELSE l
line_suffix_nl(l) ==
    IF l # << >> /\ l[Len(l)] = NL THEN <<NL>> ELSE << >>

\* bodies the lines of a document are drawn from
LineBodies ==
    { MarkerQR,
      <<"x">>,
      <<BT, "x">>,
      <<BT, BT, BT>>,
      <<BT, BT, BT, BT>>,
      <<TILDE, TILDE, TILDE>>,
      <<TILDE, TILDE, TILDE, " ">> \o MarkerQR,
      <<TILDE, TILDE, TILDE>> \o Admonish,
      <<" ", TILDE, TILDE, TILDE, " ", "A">> \o Tail(Admonish) \o <<" ">> \o MarkerQR,
      <<BT, BT, BT>> \o Admonish,
      <<" ", " ", " ", " ", BT, BT, BT>>,
      <<BT>> \o MarkerQR \o <<BT, " ">> \o MarkerQR }

MaxLines == 3

RECURSIVE Join(_, _)
Join(ls, endNl) ==
    IF ls = << >> THEN << >>
    ELSE IF Len(ls) = 1 THEN ls[1] \o (IF endNl THEN <<NL>> ELSE << >>)
    ELSE ls[1] \o <<NL>> \o Join(Tail(ls), endNl)

Docs == {Join(ls, e) : ls \in SeqsUpTo(LineBodies, MaxLines), e \in BOOLEAN}

----------------------------------------------------------------------------
(* html.rs: replace_markers_outside_code, one action per branch of the      *)
(* body of its `for` loop                                                   *)

InlineIdle ==
    /\ line = << >>
    /\ result = None

SubstIdle ==
    /\ content = << >>
    /\ lines = << >>
    /\ idx = 1
    /\ out = << >>
    /\ in_fence = FALSE
    /\ fence_char = NUL
    /\ fence_len = 0

Init ==
    /\ pc = "scan"
    /\ content \in Docs
    /\ marker = MarkerQR
    /\ replacement = ImgTag
    /\ lines = split_inclusive(content)
    /\ idx = 1
    /\ out = << >>
    /\ in_fence = FALSE
    /\ fence_char = NUL
    /\ fence_len = 0
    /\ InlineIdle
    /\ InheritIdle
    /\ ConfigIdle
    /\ RunIdle
    /\ UtilIdle

Reading == pc = "scan" /\ idx <= Len(lines)
cur_body == line_body(lines[idx])
cur_nl == line_suffix_nl(lines[idx])
cur_fence == parse_fence(cur_body)

\* html.rs:112-122, the delimiter closes the current fence
CloseFence ==
    /\ Reading
    /\ cur_fence # None
    /\ in_fence
    /\ closes_fence(cur_fence[1].ch, cur_fence[1].run_len, fence_char, fence_len)
    /\ in_fence' = FALSE
    /\ fence_char' = NUL
    /\ fence_len' = 0
    /\ out' = out \o cur_body \o cur_nl
    /\ idx' = idx + 1
    /\ UNCHANGED <<pc, content, marker, replacement, lines, inlineVars, inheritVars, configVars, runVars, utilVars>>

\* html.rs:112-122, a delimiter inside a fence that does not close it
DelimiterInFence ==
    /\ Reading
    /\ cur_fence # None
    /\ in_fence
    /\ ~closes_fence(cur_fence[1].ch, cur_fence[1].run_len, fence_char, fence_len)
    /\ out' = out \o cur_body \o cur_nl
    /\ idx' = idx + 1
    /\ UNCHANGED <<pc, content, marker, replacement, lines,
                   in_fence, fence_char, fence_len, inlineVars, inheritVars, configVars, runVars, utilVars>>

\* a changed OpenFence: the opening delimiter is scanned for the marker
OpenFence_replacing ==
    /\ Reading
    /\ cur_fence # None
    /\ ~in_fence
    /\ ~is_admonish(cur_fence[1].info)
    /\ in_fence' = TRUE
    /\ fence_char' = cur_fence[1].ch
    /\ fence_len' = cur_fence[1].run_len
    /\ out' = out \o replace_outside_inline_code(cur_body, marker, replacement)
                  \o cur_nl
    /\ idx' = idx + 1
    /\ UNCHANGED <<pc, content, marker, replacement, lines, inlineVars, inheritVars, configVars, runVars, utilVars>>

\* html.rs:123-136, an opening delimiter
OpenFence ==
    /\ Reading
    /\ cur_fence # None
    /\ ~in_fence
    /\ ~is_admonish(cur_fence[1].info)
    /\ in_fence' = TRUE
    /\ fence_char' = cur_fence[1].ch
    /\ fence_len' = cur_fence[1].run_len
    /\ out' = out \o cur_body \o cur_nl
    /\ idx' = idx + 1
    /\ UNCHANGED <<pc, content, marker, replacement, lines, inlineVars, inheritVars, configVars, runVars, utilVars>>

\* a changed FencedLine: the line is scanned although it is in a fence
FencedLine_replacing ==
    /\ Reading
    /\ cur_fence = None
    /\ in_fence
    /\ out' = out \o replace_outside_inline_code(cur_body, marker, replacement)
                  \o cur_nl
    /\ idx' = idx + 1
    /\ UNCHANGED <<pc, content, marker, replacement, lines,
                   in_fence, fence_char, fence_len, inlineVars, inheritVars, configVars, runVars, utilVars>>

\* html.rs:141-144, a line inside a code fence
FencedLine ==
    /\ Reading
    /\ cur_fence = None
    /\ in_fence
    /\ out' = out \o cur_body \o cur_nl
    /\ idx' = idx + 1
    /\ UNCHANGED <<pc, content, marker, replacement, lines,
                   in_fence, fence_char, fence_len, inlineVars, inheritVars, configVars, runVars, utilVars>>

\* html.rs:145-150, a line outside code fences: a line that is no delimiter,
\* or an admonish delimiter that fell through (html.rs:137)
TextLine ==
    /\ Reading
    /\ ~in_fence
    /\ cur_fence # None => is_admonish(cur_fence[1].info)
    /\ out' = out \o replace_outside_inline_code(cur_body, marker, replacement)
                  \o cur_nl
    /\ idx' = idx + 1
    /\ UNCHANGED <<pc, content, marker, replacement, lines,
                   in_fence, fence_char, fence_len, inlineVars, inheritVars, configVars, runVars, utilVars>>

\* html.rs:153
ReturnOut ==
    /\ pc = "scan"
    /\ idx > Len(lines)
    /\ pc' = "done"
    /\ UNCHANGED <<marker, replacement, substVars, inlineVars, inheritVars, configVars, runVars, utilVars>>

Next ==
    \/ CloseFence
    \/ DelimiterInFence
    \/ OpenFence
    \/ FencedLine
    \/ TextLine
    \/ ReturnOut

Spec == Init /\ [][Next]_vars

----------------------------------------------------------------------------
(* html.rs: replace_outside_inline_code applied to one line *)

InlineAlphabet == {BT, "Q", "x"}
MaxLineLen == 6

Hello == <<" ","h","e","l","l","o">>

ScenarioLines ==
    { <<BT>> \o MarkerQR \o <<BT>>,
      MarkerQR \o Hello,
      <<BT, BT>> \o MarkerQR \o <<BT>> \o MarkerQR \o <<BT, BT>> \o MarkerQR }

InlineLines == SeqsUpTo(InlineAlphabet, MaxLineLen) \cup ScenarioLines
Markers == {MarkerQR, MarkerQQ, MarkerQx}
Replacements == {ImgTag, <<"x","Q","Q","x">>}

InitInline ==
    /\ pc = "line"
    /\ line \in InlineLines
    /\ marker \in Markers
    /\ replacement \in Replacements
    /\ result = None
    /\ SubstIdle
    /\ InheritIdle
    /\ ConfigIdle
    /\ RunIdle
    /\ UtilIdle

\* html.rs:49-97
ReplaceInline ==
    /\ pc = "line"
    /\ result' = Some(replace_outside_inline_code(line, marker, replacement))
    /\ pc' = "line_done"
    /\ UNCHANGED <<marker, replacement, line, substVars, inheritVars, configVars, runVars, utilVars>>

NextInline == ReplaceInline

SpecInline == InitInline /\ [][NextInline]_vars

----------------------------------------------------------------------------
(* config.rs: QrConfig::inherit applied to a base and a child *)

OptionFields ==
    {"marker", "qr_path", "enable", "url", "width", "height", "margin",
     "background", "module", "background_rgba", "module_rgba"}
ShapeFlagNames ==
    {"square", "circle", "rounded_square", "vertical", "horizontal", "diamond"}

\* two values for every field, so that the two profiles never hold the same
ValuesA ==
    [marker |-> "{{QR_CODE}}", qr_path |-> "qr/a.png", enable |-> TRUE,
     url |-> "https://a.example", width |-> 300, height |-> 150, margin |-> 4,
     background |-> "#FFFFFFFF", module |-> "#000000FF",
     background_rgba |-> <<255, 255, 255, 255>>, module_rgba |-> <<0, 0, 0, 255>>]
ValuesB ==
    [marker |-> "{{QR_FOOTER}}", qr_path |-> "/abs/b.png", enable |-> FALSE,
     url |-> "https://b.example", width |-> 0, height |-> 64, margin |-> 0,
     background |-> "#FFF", module |-> "#000",
     background_rgba |-> <<1, 2, 3, 4>>, module_rgba |-> <<5, 6, 7, 8>>]

\* the profile whose set fields are those of S, with the values v
MkProfile(S, v) ==
    LET opt(f) == IF f \in S THEN Some(v[f]) ELSE None IN
    [marker |-> opt("marker"), qr_path |-> opt("qr_path"),
     enable |-> opt("enable"), url |-> opt("url"),
     fit |-> [width |-> opt("width"), height |-> opt("height")],
     margin |-> opt("margin"),
     shape |-> [f \in ShapeFlagNames |-> f \in S],
     background |-> opt("background"), module |-> opt("module"),
     background_rgba |-> opt("background_rgba"),
     module_rgba |-> opt("module_rgba")]

\* how many fields the base and the child set between them
MaxFieldsSet == 3

RECURSIVE SubsetsUpTo(_, _)
SubsetsUpTo(T, n) ==
    IF n = 0 THEN {{}}
    ELSE LET prev == SubsetsUpTo(T, n - 1)
         IN  prev \cup {s \cup {x} : s \in prev, x \in T}

TaggedFields == {"base", "child"} \X (OptionFields \cup ShapeFlagNames)
FieldsOf(S, who) == {t[2] : t \in {u \in S : u[1] = who}}

InitInherit ==
    /\ pc = "inherit"
    /\ \E S \in SubsetsUpTo(TaggedFields, MaxFieldsSet) : \E flip \in BOOLEAN :
          /\ base = MkProfile(FieldsOf(S, "base"), IF flip THEN ValuesB ELSE ValuesA)
          /\ child = MkProfile(FieldsOf(S, "child"), IF flip THEN ValuesA ELSE ValuesB)
    /\ merged = None
    /\ marker = MarkerQR
    /\ replacement = ImgTag
    /\ SubstIdle
    /\ InlineIdle
    /\ ConfigIdle
    /\ RunIdle
    /\ UtilIdle

\* config.rs:232-253
Inherit ==
    /\ pc = "inherit"
    /\ merged' = Some(inherit(base, child))
    /\ pc' = "inherited"
    /\ UNCHANGED <<marker, replacement, base, child, substVars, inlineVars, configVars, runVars, utilVars>>

NextInherit == Inherit

SpecInherit == InitInherit /\ [][NextInherit]_vars

----------------------------------------------------------------------------
(* preprocessor.rs: run_impl from the configuration to the profiles vector, *)
(* and config.rs: QrConfig::profiles                                        *)

\* the key fit of the custom table is at once the name of a custom and the
\* fit table that load_custom_defaults reads (preprocessor.rs:88)
FitName == <<"f", "i", "t">>
CustomNames == {<<"a">>, <<"a", "b">>, <<"b">>, <<"B">>, FitName}
MaxCustoms == 3

CustomProfiles ==
    {[Profile_default EXCEPT !.marker = m, !.qr_path = q] :
        m \in {None, Some("{{QR_A}}"), Some("{{QR_B}}")},
        q \in {None, Some("qr/custom.png")}}

CustomMaps ==
    UNION {[D -> CustomProfiles] : D \in SubsetsUpTo(CustomNames, MaxCustoms)}

ParsedConfigs ==
    {[enable |-> e, url |-> u, qr_path |-> None,
      fit |-> FitConfig_default, margin |-> None, shape |-> ShapeFlags_default,
      background |-> None, module |-> None,
      background_rgba |-> None, module_rgba |-> None,
      custom |-> cm] :
        e \in {None, Some(TRUE), Some(FALSE)},
        u \in {None, Some("https://a.example")},
        cm \in CustomMaps}

\* the primitives a bare [preprocessor.qr.custom] table may hold
BareTable_empty ==
    [enable |-> None, url |-> None, qr_path |-> None, margin |-> None,
     fit |-> FitConfig_default, shape |-> ShapeFlags_default,
     background |-> None, module |-> None]
BareTables ==
    { BareTable_empty,
      [BareTable_empty EXCEPT !.url = Some("https://d.example")],
      [BareTable_empty EXCEPT !.qr_path = Some("qr/bare.png"),
                              !.enable = Some(FALSE)],
      [BareTable_empty EXCEPT !.fit = [width |-> Some(128), height |-> None]] }

\* a key of the custom table whose value is no table is no Profile: with one,
\* the configuration does not deserialize (config.rs:180, preprocessor.rs:268-272)
has_primitives(t) ==
    \/ t.enable # None \/ t.url # None \/ t.qr_path # None
    \/ t.margin # None \/ t.background # None \/ t.module # None

\* the configuration c can have been deserialized from a book.toml whose
\* custom table is t
Deserializable(c, t) ==
    /\ DOMAIN c.custom # {} => t # None
    /\ t # None =>
          /\ ~has_primitives(t[1])
          /\ t[1].fit # FitConfig_default => FitName \in DOMAIN c.custom

InitProfiles ==
    /\ pc = "run"
    /\ ctx_cfg \in {None} \cup {Some(c) : c \in ParsedConfigs}
    /\ ctx_custom \in {None} \cup {Some(t) : t \in BareTables}
    /\ ctx_cfg # None => Deserializable(ctx_cfg[1], ctx_custom)
    /\ profiles = << >>
    /\ valid_profiles = None
    /\ marker = MarkerQR
    /\ replacement = ImgTag
    /\ SubstIdle
    /\ InlineIdle
    /\ InheritIdle
    /\ RunIdle
    /\ UtilIdle

\* preprocessor.rs:116-118, the preprocessor is disabled
RunDisabled ==
    /\ pc = "run"
    /\ ~is_enabled(cfg)
    /\ pc' = "ok"
    /\ UNCHANGED <<marker, replacement, substVars, inlineVars, inheritVars, configVars, runVars, utilVars>>

\* preprocessor.rs:116-171
BuildProfiles ==
    /\ pc = "run"
    /\ is_enabled(cfg)
    /\ profiles' = build_profiles
    /\ pc' = "queued"
    /\ UNCHANGED <<marker, replacement, substVars, inlineVars, inheritVars,
                   ctx_cfg, ctx_custom, valid_profiles, runVars, utilVars>>

\* config.rs:267-277
CallProfiles ==
    /\ valid_profiles = None
    /\ valid_profiles' = Some(QrConfig_profiles(cfg))
    /\ UNCHANGED <<pc, marker, replacement, substVars, inlineVars, inheritVars,
                   ctx_cfg, ctx_custom, profiles, runVars, utilVars>>

NextProfiles ==
    \/ RunDisabled
    \/ BuildProfiles
    \/ CallProfiles

SpecProfiles == InitProfiles /\ [][NextProfiles]_vars

----------------------------------------------------------------------------
(* util.rs: sizes, slugs and paths; config.rs: ShapeFlags::to_shape *)

\* util.rs:13
DEFAULT_SIZE == 200

\* clamp_nonzero (util.rs:68-75)
clamp_nonzero(value, fallback) == IF value = 0 THEN fallback ELSE value

\* a changed pass_fit_dims: with one dimension the other is the default
pass_fit_dims_no_mirror(fit) ==
    <<IF fit.width = None THEN DEFAULT_SIZE
      ELSE clamp_nonzero(fit.width[1], DEFAULT_SIZE),
      IF fit.height = None THEN DEFAULT_SIZE
      ELSE clamp_nonzero(fit.height[1], DEFAULT_SIZE)>>

\* pass_fit_dims (util.rs:30-47)
pass_fit_dims(fit) ==
    IF fit.width = None /\ fit.height = None THEN <<DEFAULT_SIZE, DEFAULT_SIZE>>
    ELSE IF fit.height = None
         THEN LET ww == clamp_nonzero(fit.width[1], DEFAULT_SIZE) IN <<ww, ww>>
    ELSE IF fit.width = None
         THEN LET hh == clamp_nonzero(fit.height[1], DEFAULT_SIZE) IN <<hh, hh>>
    ELSE LET ww == clamp_nonzero(fit.width[1], DEFAULT_SIZE)
             hh == clamp_nonzero(fit.height[1], DEFAULT_SIZE)
         IN  <<ww, hh>>

\* a changed to_shape: the square flag is looked at first
to_shape_square_first(sh) ==
    IF sh.square THEN "Square"
    ELSE IF sh.circle THEN "Circle"
    ELSE IF sh.rounded_square THEN "RoundedSquare"
    ELSE IF sh.vertical THEN "Vertical"
    ELSE IF sh.horizontal THEN "Horizontal"
    ELSE IF sh.diamond THEN "Diamond"
    ELSE "Square"

\* ShapeFlags::to_shape (config.rs:71-85)
to_shape(sh) ==
    IF sh.circle THEN "Circle"
    ELSE IF sh.rounded_square THEN "RoundedSquare"
    ELSE IF sh.vertical THEN "Vertical"
    ELSE IF sh.horizontal THEN "Horizontal"
    ELSE IF sh.diamond THEN "Diamond"
    ELSE "Square"

Digits == {"0", "1", "2", "3", "4", "5", "6", "7", "8", "9"}

\* char::is_ascii_alphanumeric
is_ascii_alphanumeric(c) ==
    \/ c \in Digits
    \/ \E k \in 1..26 : Upper[k] = c \/ Lower[k] = c

\* str::trim_matches(c)
RECURSIVE trim_start_matches(_, _)
trim_start_matches(s, c) ==
    IF s # << >> /\ s[1] = c THEN trim_start_matches(Tail(s), c) ELSE s

RECURSIVE trim_end_matches(_, _)
trim_end_matches(s, c) ==
    IF s # << >> /\ s[Len(s)] = c
    THEN trim_end_matches(SubSeq(s, 1, Len(s) - 1), c)
    ELSE s

trim_matches(s, c) == trim_end_matches(trim_start_matches(s, c), c)

\* str::replace: the matches of from, leftmost first and not overlapping
RECURSIVE str_replace(_, _, _)
str_replace(s, from, to) ==
    IF s = << >> THEN << >>
    ELSE IF StartsWithAt(s, 1, from)
         THEN to \o str_replace(SubSeq(s, Len(from) + 1, Len(s)), from, to)
    ELSE <<s[1]>> \o str_replace(Tail(s), from, to)

\* util.rs:104-106
RECURSIVE collapse_underscores(_)
collapse_underscores(o) ==
    IF Contains(o, <<"_", "_">>)
    THEN collapse_underscores(str_replace(o, <<"_", "_">>, <<"_">>))
    ELSE o

\* slug_from_marker (util.rs:88-108)
slug_from_marker(m) ==
    LET s0 == trim_matches(trim_matches(trim(m), "{"), "}")
        s == SelectSeq(s0, LAMBDA c : c # "{" /\ c # "}")
        o == [k \in 1..Len(s) |->
                IF is_ascii_alphanumeric(s[k]) THEN char_to_ascii_lowercase(s[k])
                ELSE "_"]
    IN  trim_matches(collapse_underscores(o), "_")

\* A path is the sequence of its components, each a text; an absolute path
\* begins with the root component.
RootDir == <<"/">>

\* Path::is_absolute
is_absolute(p) == p # << >> /\ p[1] = RootDir

\* Path::join
path_join(a, b) == IF is_absolute(b) THEN b ELSE a \o b

\* Path::parent
path_parent(p) == IF p = << >> THEN << >> ELSE SubSeq(p, 1, Len(p) - 1)

\* the components of a text without a leading separator
RECURSIVE split_components(_)
split_components(s) ==
    IF s = << >> THEN << >>
    ELSE IF \E k \in 1..Len(s) : s[k] = "/"
         THEN LET k == CHOOSE k \in 1..Len(s) :
                          s[k] = "/" /\ \A j \in 1..(k - 1) : s[j] # "/"
                  rest == split_components(SubSeq(s, k + 1, Len(s)))
              IN  IF k = 1 THEN rest ELSE <<SubSeq(s, 1, k - 1)>> \o rest
         ELSE <<s>>

\* PathBuf::from
PathBuf_from(s) ==
    IF s # << >> /\ s[1] = "/" THEN <<RootDir>> \o split_components(s)
    ELSE split_components(s)

\* Path::to_string_lossy
RECURSIVE path_str(_)
path_str(p) ==
    IF p = << >> THEN << >>
    ELSE IF Len(p) = 1 THEN p[1]
    ELSE IF p[1] = RootDir THEN RootDir \o path_str(Tail(p))
    ELSE p[1] \o <<"/">> \o path_str(Tail(p))

DotPng == <<".", "p", "n", "g">>

\* derived_default_path (util.rs:129-133)
derived_default_path(src_dir, m) ==
    path_join(path_join(src_dir, <<<<"q", "r">>>>),
              <<slug_from_marker(m) \o DotPng>>)

\* a changed resolve_profile_path: the explicit path is not looked at
resolve_profile_path_derived_only(src_dir, qr_path, m) ==
    derived_default_path(src_dir, m)

\* resolve_profile_path (util.rs:169-180)
resolve_profile_path(src_dir, qr_path, m) ==
    IF qr_path # None
    THEN LET pb == PathBuf_from(qr_path[1]) IN
         IF is_absolute(pb) THEN pb ELSE path_join(src_dir, pb)
    ELSE derived_default_path(src_dir, m)

----------------------------------------------------------------------------
(* url.rs, image.rs, html.rs: the collaborators of the loop of run_impl *)

Ok(v) == <<"Ok", v>>
Err == <<"Err">>
is_ok(r) == r[1] = "Ok"

\* str::split_once('/')
split_once(s) ==
    IF \E k \in 1..Len(s) : s[k] = "/"
    THEN LET k == CHOOSE k \in 1..Len(s) :
                     s[k] = "/" /\ \A j \in 1..(k - 1) : s[j] # "/"
         IN  Some(<<SubSeq(s, 1, k - 1), SubSeq(s, k + 1, Len(s))>>)
    ELSE None

\* resolve_url (url.rs:14-42); repository is the value of the environment
\* variable GITHUB_REPOSITORY
resolve_url(url, localhost, repository) ==
    IF url # None THEN Ok(<<url[1]>>)
    ELSE IF repository # None /\ split_once(repository[1]) # None
         THEN LET parts == split_once(repository[1])[1] IN
              Ok(<<"https://">> \o parts[1] \o <<".github.io/">> \o parts[2])
    ELSE IF localhost THEN Ok(<<"http://127.0.0.1:3000/">>)
    ELSE Err

\* payloads that QRBuilder::build rejects (image.rs:17-19): more data than
\* the largest code holds
TooLongUrl == "https://too.long.example"
QRBuilder_build_ok(url) == \A k \in 1..Len(url) : url[k] # TooLongUrl

\* Path::extension of a file name
extension(name) ==
    IF \E k \in 2..Len(name) : name[k] = "."
    THEN LET k == CHOOSE k \in 2..Len(name) :
                     name[k] = "." /\ \A j \in (k + 1)..Len(name) : name[j] # "."
         IN  Some(SubSeq(name, k + 1, Len(name)))
    ELSE None

\* PathBuf::set_extension("png")
set_extension_png(p) ==
    LET name == p[Len(p)]
        ext == extension(name)
        stem == IF ext = None THEN name
                ELSE SubSeq(name, 1, Len(name) - Len(ext[1]) - 1)
    IN  SubSeq(p, 1, Len(p) - 1) \o <<stem \o DotPng>>

\* image.rs:21-24: where the image is written
png_out(root, qr_rel) ==
    LET o == path_join(root, qr_rel)
        ext == extension(o[Len(o)])
    IN  IF to_ascii_lowercase(IF ext = None THEN << >> ELSE ext[1]) # <<"p", "n", "g">>
        THEN set_extension_png(o)
        ELSE o

\* image.rs:29-37: the bytes of the image, a function of what the builder
\* is given
png_bytes(url, fit_w, fit_h, margin, shape, background, module) ==
    [url |-> url, fit_w |-> fit_w, fit_h |-> fit_h, margin |-> margin,
     shape |-> shape, background |-> background, module |-> module]

\* image.rs:40: the first twelve hex digits of the hash of the bytes, taken
\* as free of collisions
hash12(bytes) == ToString(bytes)

\* write_if_changed (image.rs:44-64) on the files
write_if_changed(files, path, bytes) ==
    IF path \in DOMAIN files /\ files[path] = bytes THEN files
    ELSE [q \in DOMAIN files \cup {path} |-> IF q = path THEN bytes ELSE files[q]]

\* html.rs:100-153 as a function: the lines from the k-th on, with the
\* fence state
RECURSIVE scan_lines(_, _, _, _, _, _, _)
scan_lines(ls, k, m, repl, inf, fc, fl) ==
    IF k > Len(ls) THEN << >>
    ELSE LET body == line_body(ls[k])
             nl == line_suffix_nl(ls[k])
             f == parse_fence(body)
             copied == body \o nl
             replaced == replace_outside_inline_code(body, m, repl) \o nl
         IN  IF f # None /\ inf
             THEN IF closes_fence(f[1].ch, f[1].run_len, fc, fl)
                  THEN copied \o scan_lines(ls, k + 1, m, repl, FALSE, NUL, 0)
                  ELSE copied \o scan_lines(ls, k + 1, m, repl, inf, fc, fl)
             ELSE IF f # None /\ ~is_admonish(f[1].info)
             THEN copied \o scan_lines(ls, k + 1, m, repl, TRUE, f[1].ch, f[1].run_len)
             ELSE IF inf
             THEN copied \o scan_lines(ls, k + 1, m, repl, inf, fc, fl)
             ELSE replaced \o scan_lines(ls, k + 1, m, repl, inf, fc, fl)

\* replace_markers_outside_code (html.rs:10-154)
replace_markers_outside_code(c, m, repl) ==
    scan_lines(split_inclusive(c), 1, m, repl, FALSE, NUL, 0)

\* pathdiff::diff_paths (html.rs:178), for paths without . and ..
RECURSIVE diff_components(_, _)
diff_components(path, b) ==
    IF path # << >> /\ b # << >> /\ path[1] = b[1]
    THEN diff_components(Tail(path), Tail(b))
    ELSE [k \in 1..Len(b) |-> <<".", ".">>] \o path

diff_paths(path, b) ==
    IF is_absolute(path) # is_absolute(b)
    THEN IF is_absolute(path) THEN Some(path) ELSE None
    ELSE Some(diff_components(path, b))

\* html.rs:172-191: the src attribute for the chapter at ch_rel_path
img_src(src_dir, ch_rel_path, qr_rel_under_src, cache_bust) ==
    LET ch_abs == path_join(src_dir, ch_rel_path)
        ch_dir == path_parent(ch_abs)
        d == diff_paths(qr_rel_under_src, ch_dir)
        rel == IF d = None THEN qr_rel_under_src ELSE d[1]
        rel_str == str_replace(path_str(rel), <<"\\">>, <<"/">>)
        rel2 == IF ~Contains(rel_str, <<"/">>) /\ ~StartsWithAt(rel_str, 1, <<".", "/">>)
                THEN <<".", "/">> \o rel_str
                ELSE IF StartsWithAt(rel_str, 1, <<"/">>)
                     THEN trim_start_matches(rel_str, "/")
                ELSE rel_str
    IN  IF cache_bust = None THEN rel2
        ELSE IF Contains(rel2, <<"?">>)
             THEN rel2 \o <<"&", "v", "=">> \o <<cache_bust[1]>>
        ELSE rel2 \o <<"?", "v", "=">> \o <<cache_bust[1]>>

\* html.rs:193-197
img_style(fit_h, fit_w) ==
    LET hs == IF fit_h > 0 THEN <<<<"height:", ToString(fit_h), "px">>>> ELSE << >>
        ws == IF fit_w > 0 THEN <<<<"width:", ToString(fit_w), "px">>>> ELSE << >>
        items == hs \o ws
    IN  IF items = << >> THEN << >>
        ELSE <<" style=\"">> \o items[1]
             \o (IF Len(items) = 2 THEN <<";">> \o items[2] ELSE << >>)
             \o <<"\"">>

\* html.rs:199-203
img_tag(rel_str, style) ==
    <<"<img src=\"">> \o rel_str \o <<"\" alt=\"QR code\"">> \o style
        \o <<" loading=\"eager\">">>

\* html.rs:168-205: what inject_marker_relative does to one section
inject_section(item, m, src_dir, qr_rel_under_src, fit_h, fit_w, cache_bust) ==
    IF item.kind # "Chapter" THEN item
    ELSE IF ~Contains(item.content, m) THEN item
    ELSE IF item.path = None THEN item
    ELSE LET img == img_tag(img_src(src_dir, item.path[1], qr_rel_under_src, cache_bust),
                            img_style(fit_h, fit_w))
         IN  [item EXCEPT !.content = replace_markers_outside_code(@, m, img)]

\* a changed inject_marker_relative: the chapters are left as they are
inject_marker_relative_nothing(sections, m, src_dir, qr_rel_under_src, fit_h, fit_w, cache_bust) ==
    sections

\* inject_marker_relative (html.rs:158-209)
inject_marker_relative(sections, m, src_dir, qr_rel_under_src, fit_h, fit_w, cache_bust) ==
    [k \in 1..Len(sections) |->
        inject_section(sections[k], m, src_dir, qr_rel_under_src, fit_h, fit_w, cache_bust)]

\* a changed marker_in_book: every marker counts as used
marker_in_book_always(sections, m) == TRUE

\* marker_in_book (preprocessor.rs:45-51)
marker_in_book(sections, m) ==
    \E k \in 1..Len(sections) :
        sections[k].kind = "Chapter" /\ Contains(sections[k].content, m)

\* a changed duplicate_marker_from: a marker counts only when it is the
\* same as the one just before it
RECURSIVE dup_loop_adjacent(_, _, _)
dup_loop_adjacent(ps, k, last) ==
    IF k > Len(ps) THEN None
    ELSE IF ps[k].marker = None THEN dup_loop_adjacent(ps, k + 1, last)
    ELSE IF ps[k].marker = last THEN ps[k].marker
    ELSE dup_loop_adjacent(ps, k + 1, ps[k].marker)

duplicate_marker_from_adjacent(ps) == dup_loop_adjacent(ps, 1, None)

\* config.rs:286-292: the loop from the k-th profile on, with the set seen
RECURSIVE dup_loop(_, _, _)
dup_loop(ps, k, seen) ==
    IF k > Len(ps) THEN None
    ELSE IF ps[k].marker = None THEN dup_loop(ps, k + 1, seen)
    ELSE IF ps[k].marker[1] \in seen THEN Some(ps[k].marker[1])
    ELSE dup_loop(ps, k + 1, seen \cup {ps[k].marker[1]})

\* QrConfig::duplicate_marker_from (config.rs:282-294)
duplicate_marker_from(ps) == dup_loop(ps, 1, {})

----------------------------------------------------------------------------
(* preprocessor.rs: run_preprocessor_once and the loop of run_impl *)

\* str::chars, for the markers and paths that the configurations hold
chars(s) ==
    CASE s = "{{QR_CODE}}" -> <<"{", "{", "Q", "R", "_", "C", "O", "D", "E", "}", "}">>
      [] s = "{{QR_A}}" -> <<"{", "{", "Q", "R", "_", "A", "}", "}">>
      [] s = "{{QR_B}}" -> <<"{", "{", "Q", "R", "_", "B", "}", "}">>
      [] s = "{{qr-code}}" -> <<"{", "{", "q", "r", "-", "c", "o", "d", "e", "}", "}">>
      [] s = "{{QR_FOOTER}}" -> <<"{", "{", "Q", "R", "_", "F", "O", "O", "T", "E", "R", "}", "}">>
      [] s = "qr/custom.png" -> <<"q", "r", "/", "c", "u", "s", "t", "o", "m", ".", "p", "n", "g">>
      [] s = "qr/bare.png" -> <<"q", "r", "/", "b", "a", "r", "e", ".", "p", "n", "g">>
      [] s = "qr/a.png" -> <<"q", "r", "/", "a", ".", "p", "n", "g">>
      [] s = "/abs/b.png" -> <<"/", "a", "b", "s", "/", "b", ".", "p", "n", "g">>
      [] s = "qr/shared" -> <<"q", "r", "/", "s", "h", "a", "r", "e", "d">>

\* Option<String> to Option<&str>, as text
as_chars(o) == IF o = None THEN None ELSE Some(chars(o[1]))

\* ctx.config.book.src (preprocessor.rs:120) and ctx.root
SrcDir == <<<<"s", "r", "c">>>>
BookRoot == <<RootDir, <<"b", "o", "o", "k">>>>

\* Profile::is_enabled (config.rs:133-135)
Profile_is_enabled(p) == IF p.enable = None THEN TRUE ELSE p.enable[1]

\* ColorCfg::to_color (config.rs:36-43), not interpreted
to_color(c) == <<"Color", c>>

\* Profile::background_color (config.rs:140-146)
background_color(p) ==
    IF p.background # None THEN Some(to_color(p.background[1]))
    ELSE IF p.background_rgba # None THEN Some(to_color(p.background_rgba[1]))
    ELSE None

\* Profile::module_color (config.rs:151-157)
module_color(p) ==
    IF p.module # None THEN Some(to_color(p.module[1]))
    ELSE IF p.module_rgba # None THEN Some(to_color(p.module_rgba[1]))
    ELSE None

\* the profile the loop is at (preprocessor.rs:187-188)
InLoop == pc = "loop" /\ next_profile <= Len(profiles)
profile == profiles[next_profile]
profile_marker == chars(profile.marker[1])

\* preprocessor.rs:197
payload == resolve_url(profile.url, localhost_qr, github_repository)

\* preprocessor.rs:219-221
qr_rel_under_src == resolve_profile_path(SrcDir, as_chars(profile.qr_path), profile_marker)

\* HashMap::insert (preprocessor.rs:224)
map_insert(m, k, v) == [q \in DOMAIN m \cup {k} |-> IF q = k THEN v ELSE m[q]]

\* preprocessor.rs:224-232: the warning for two markers on one file
collision_warnings ==
    IF /\ qr_rel_under_src \in DOMAIN path_to_marker
       /\ path_to_marker[qr_rel_under_src] # profile.marker[1]
    THEN <<<<"collision", path_to_marker[qr_rel_under_src], profile.marker[1]>>>>
    ELSE << >>

\* preprocessor.rs:235-238: the derived default file is there and the
\* profile has no explicit path
refuses_overwrite ==
    /\ qr_rel_under_src = derived_default_path(SrcDir, chars(DefaultMarker))
    /\ profile.qr_path = None
    /\ path_join(BookRoot, qr_rel_under_src) \in DOMAIN fs

\* preprocessor.rs:250
MarginFallback == 2

image_margin == IF profile.margin = None THEN MarginFallback ELSE profile.margin[1]

\* preprocessor.rs:249-257: what write_qr_png encodes for the profile
image ==
    LET dims == pass_fit_dims(profile.fit) IN
    png_bytes(payload[2], dims[1], dims[2], image_margin, to_shape(profile.shape),
              background_color(profile), module_color(profile))
\* the items of a book (mdbook::book::BookItem)
Chapter(path, text, sub_items) ==
    [kind |-> "Chapter", path |-> path, content |-> text, sub_items |-> sub_items]
Separator ==
    [kind |-> "Separator", path |-> None, content |-> << >>, sub_items |-> << >>]

MdPath(name) == Some(<<name \o <<".", "m", "d">>>>)

ChapterAll ==
    Chapter(MdPath(<<"a">>),
            chars("{{QR_CODE}}") \o <<" ", BT>> \o chars("{{QR_CODE}}") \o <<BT, NL>>
                \o chars("{{QR_A}}") \o <<" ">> \o chars("{{QR_B}}"),
            << >>)
ChapterNoPath == Chapter(None, chars("{{QR_CODE}}"), << >>)
ChapterWithNested ==
    Chapter(Some(<<<<"s", "u", "b">>, <<"c", ".", "m", "d">>>>),
            <<"x", NL>> \o chars("{{qr-code}}"),
            <<Chapter(MdPath(<<"d">>),
                      chars("{{QR_CODE}}") \o <<" ">> \o chars("{{QR_A}}"), << >>)>>)

BookItems == {ChapterAll, ChapterNoPath, ChapterWithNested, Separator}

MaxSections == 2
Books == UNION {[1..n -> BookItems] : n \in 0..MaxSections}

UrlA == "https://a.example"
UrlB == "https://b.example"

RunProfile(m, u, q, e) ==
    [Profile_default EXCEPT !.marker = m, !.url = u, !.qr_path = q, !.enable = e]

NameA == <<"a">>
NameB == <<"b">>

RunCustoms ==
    { << >>,
      NameA :> RunProfile(Some("{{QR_A}}"), Some(UrlB), None, None),
      NameA :> RunProfile(Some("{{QR_A}}"), None, None, None),
      NameA :> RunProfile(Some("{{qr-code}}"), Some(UrlB), None, None),
      NameA :> RunProfile(Some("{{QR_CODE}}"), Some(UrlB), Some("qr/custom.png"), None),
      NameA :> RunProfile(Some("{{QR_A}}"), Some(UrlB), None, Some(FALSE)),
      NameA :> RunProfile(None, Some(UrlB), None, None),
      (NameA :> RunProfile(Some("{{QR_A}}"), Some(UrlB), Some("qr/custom.png"), None))
          @@ (NameB :> RunProfile(Some("{{QR_B}}"), None, Some("qr/custom.png"), None)),
      (NameA :> RunProfile(Some("{{QR_A}}"), Some(TooLongUrl), None, None))
          @@ (NameB :> RunProfile(Some("{{QR_B}}"), Some(UrlB), None, None)),
      (NameA :> RunProfile(Some("{{QR_A}}"), None, None, None))
          @@ (NameB :> RunProfile(Some("{{QR_B}}"), Some(UrlB), Some("qr/shared"), None)) }

RunConfig(e, u, cm) ==
    [enable |-> e, url |-> u, qr_path |-> None,
     fit |-> FitConfig_default, margin |-> None, shape |-> ShapeFlags_default,
     background |-> None, module |-> None,
     background_rgba |-> None, module_rgba |-> None,
     custom |-> cm]

RunConfigs ==
    {RunConfig(None, u, cm) : u \in {None, Some(UrlA)}, cm \in RunCustoms}
    \cup {RunConfig(Some(FALSE), Some(UrlA),
                    NameA :> RunProfile(Some("{{QR_A}}"), Some(UrlB), None, Some(TRUE)))}

\* an image of an earlier build
StaleBytes ==
    png_bytes(<<"https://stale.example">>, DEFAULT_SIZE, DEFAULT_SIZE,
              MarginFallback, "Square", None, None)
DefaultImage == path_join(BookRoot, derived_default_path(SrcDir, chars(DefaultMarker)))
FileSystems == { << >>, DefaultImage :> StaleBytes }

GithubRepository == <<"o", "/", "r">>

InitRun ==
    /\ pc = "run"
    /\ \/ ctx_cfg = None /\ qr_table \in {"absent", "malformed"}
       \/ ctx_cfg \in {Some(c) : c \in RunConfigs} /\ qr_table = "parsed"
    /\ ctx_custom \in {None, Some(BareTable_empty)}
    /\ qr_table = "absent" => ctx_custom = None
    /\ ctx_cfg # None => Deserializable(ctx_cfg[1], ctx_custom)
    /\ profiles = << >>
    /\ valid_profiles = None
    /\ book \in Books
    /\ fs \in FileSystems
    /\ github_repository \in {None, Some(GithubRepository)}
    /\ localhost_qr \in BOOLEAN
    /\ localhost_qr => github_repository = None
    /\ on_failure \in {"Continue", "Bail"}
    \* the failure mode is looked at only when resolve_url can fail
    /\ on_failure = "Bail" => github_repository = None /\ ~localhost_qr
    /\ next_profile = 1
    /\ path_to_marker = << >>
    /\ warnings = << >>
    /\ resolved = << >>
    /\ encoded = << >>
    /\ injected = << >>
    /\ stdout = None
    /\ marker = MarkerQR
    /\ replacement = ImgTag
    /\ SubstIdle
    /\ InlineIdle
    /\ InheritIdle
    /\ UtilIdle

\* preprocessor.rs:173-185: the duplicate warning and the empty map
StartLoop ==
    /\ pc = "queued"
    /\ warnings' =
          LET dupe == duplicate_marker_from(profiles) IN
          IF dupe # None THEN <<<<"duplicate", dupe[1]>>>> ELSE << >>
    /\ path_to_marker' = << >>
    /\ next_profile' = 1
    /\ pc' = "loop"
    /\ UNCHANGED <<marker, replacement, substVars, inlineVars, inheritVars,
                   configVars, utilVars, book, fs, github_repository, localhost_qr,
                   on_failure, qr_table, resolved, encoded, injected, stdout>>

\* preprocessor.rs:187: the filter leaves a disabled profile out
SkipDisabled ==
    /\ InLoop
    /\ ~Profile_is_enabled(profile)
    /\ next_profile' = next_profile + 1
    /\ UNCHANGED <<pc, marker, replacement, substVars, inlineVars, inheritVars,
                   configVars, utilVars, book, fs, github_repository, localhost_qr,
                   on_failure, qr_table, path_to_marker, warnings, resolved,
                   encoded, injected, stdout>>

\* preprocessor.rs:191-194: the marker is in no chapter
SkipUnused ==
    /\ InLoop
    /\ Profile_is_enabled(profile)
    /\ ~marker_in_book(book, profile_marker)
    /\ next_profile' = next_profile + 1
    /\ UNCHANGED <<pc, marker, replacement, substVars, inlineVars, inheritVars,
                   configVars, utilVars, book, fs, github_repository, localhost_qr,
                   on_failure, qr_table, path_to_marker, warnings, resolved,
                   encoded, injected, stdout>>

\* the profile is enabled and its marker is in a chapter: resolve_url is called
Resolving ==
    /\ InLoop
    /\ Profile_is_enabled(profile)
    /\ marker_in_book(book, profile_marker)

\* a changed UrlContinue: the run ends although the mode is Continue
UrlContinue_bails ==
    /\ Resolving
    /\ ~is_ok(payload)
    /\ on_failure = "Continue"
    /\ resolved' = Append(resolved, next_profile)
    /\ pc' = "failed"
    /\ UNCHANGED <<marker, replacement, substVars, inlineVars, inheritVars,
                   configVars, utilVars, book, fs, github_repository, localhost_qr,
                   on_failure, qr_table, next_profile, path_to_marker, warnings,
                   encoded, injected, stdout>>

\* preprocessor.rs:199-207: no URL, failure mode Continue
UrlContinue ==
    /\ Resolving
    /\ ~is_ok(payload)
    /\ on_failure = "Continue"
    /\ resolved' = Append(resolved, next_profile)
    /\ warnings' = Append(warnings, <<"unresolved", profile.marker[1]>>)
    /\ next_profile' = next_profile + 1
    /\ UNCHANGED <<pc, marker, replacement, substVars, inlineVars, inheritVars,
                   configVars, utilVars, book, fs, github_repository, localhost_qr,
                   on_failure, qr_table, path_to_marker, encoded, injected, stdout>>

\* preprocessor.rs:208-214: no URL, failure mode Bail
UrlBail ==
    /\ Resolving
    /\ ~is_ok(payload)
    /\ on_failure = "Bail"
    /\ resolved' = Append(resolved, next_profile)
    /\ pc' = "failed"
    /\ UNCHANGED <<marker, replacement, substVars, inlineVars, inheritVars,
                   configVars, utilVars, book, fs, github_repository, localhost_qr,
                   on_failure, qr_table, next_profile, path_to_marker, warnings,
                   encoded, injected, stdout>>

\* preprocessor.rs:234-246: the derived default file is not overwritten
RefuseOverwrite ==
    /\ Resolving
    /\ is_ok(payload)
    /\ refuses_overwrite
    /\ resolved' = Append(resolved, next_profile)
    /\ path_to_marker' = map_insert(path_to_marker, qr_rel_under_src, profile.marker[1])
    /\ warnings' = warnings \o collision_warnings \o <<<<"exists", profile.marker[1]>>>>
    /\ next_profile' = next_profile + 1
    /\ UNCHANGED <<pc, marker, replacement, substVars, inlineVars, inheritVars,
                   configVars, utilVars, book, fs, github_repository, localhost_qr,
                   on_failure, qr_table, encoded, injected, stdout>>

\* a changed EncodeFails: the failure is swallowed and the loop goes on
EncodeFails_goes_on ==
    /\ Resolving
    /\ is_ok(payload)
    /\ ~refuses_overwrite
    /\ ~QRBuilder_build_ok(payload[2])
    /\ resolved' = Append(resolved, next_profile)
    /\ path_to_marker' = map_insert(path_to_marker, qr_rel_under_src, profile.marker[1])
    /\ warnings' = warnings \o collision_warnings
    /\ encoded' = Append(encoded, next_profile)
    /\ next_profile' = next_profile + 1
    /\ UNCHANGED <<pc, marker, replacement, substVars, inlineVars, inheritVars,
                   configVars, utilVars, book, fs, github_repository, localhost_qr,
                   on_failure, qr_table, injected, stdout>>

\* preprocessor.rs:255-257 with image.rs:17-19: write_qr_png fails
EncodeFails ==
    /\ Resolving
    /\ is_ok(payload)
    /\ ~refuses_overwrite
    /\ ~QRBuilder_build_ok(payload[2])
    /\ resolved' = Append(resolved, next_profile)
    /\ path_to_marker' = map_insert(path_to_marker, qr_rel_under_src, profile.marker[1])
    /\ warnings' = warnings \o collision_warnings
    /\ encoded' = Append(encoded, next_profile)
    /\ pc' = "failed"
    /\ UNCHANGED <<marker, replacement, substVars, inlineVars, inheritVars,
                   configVars, utilVars, book, fs, github_repository, localhost_qr,
                   on_failure, qr_table, next_profile, injected, stdout>>

\* preprocessor.rs:248-261: the image is written and the marker replaced
RenderInject ==
    /\ Resolving
    /\ is_ok(payload)
    /\ ~refuses_overwrite
    /\ QRBuilder_build_ok(payload[2])
    /\ resolved' = Append(resolved, next_profile)
    /\ path_to_marker' = map_insert(path_to_marker, qr_rel_under_src, profile.marker[1])
    /\ warnings' = warnings \o collision_warnings
    /\ encoded' = Append(encoded, next_profile)
    /\ fs' = write_if_changed(fs, png_out(BookRoot, qr_rel_under_src), image)
    /\ book' = inject_marker_relative(book, profile_marker, SrcDir, qr_rel_under_src,
                                      image.fit_h, image.fit_w,
                                      Some(hash12(image)))
    /\ injected' = Append(injected, next_profile)
    /\ next_profile' = next_profile + 1
    /\ UNCHANGED <<pc, marker, replacement, substVars, inlineVars, inheritVars,
                   configVars, utilVars, github_repository, localhost_qr, on_failure,
                   qr_table, stdout>>

\* preprocessor.rs:264: the loop is over
LoopDone ==
    /\ pc = "loop"
    /\ next_profile > Len(profiles)
    /\ pc' = "ok"
    /\ UNCHANGED <<marker, replacement, substVars, inlineVars, inheritVars,
                   configVars, utilVars, runVars>>

\* preprocessor.rs:36-40: the processed book is written to the output
WriteOutput ==
    /\ pc = "ok"
    /\ stdout' = Some(book)
    /\ pc' = "exit0"
    /\ UNCHANGED <<marker, replacement, substVars, inlineVars, inheritVars,
                   configVars, utilVars, book, fs, github_repository, localhost_qr,
                   on_failure, qr_table, next_profile, path_to_marker, warnings,
                   resolved, encoded, injected>>

\* preprocessor.rs:41 and main.rs:43-46: the error ends the process
ReturnError ==
    /\ pc = "failed"
    /\ pc' = "exit1"
    /\ UNCHANGED <<marker, replacement, substVars, inlineVars, inheritVars,
                   configVars, utilVars, runVars>>

NextRun ==
    \/ RunDisabled
    \/ BuildProfiles
    \/ StartLoop
    \/ SkipDisabled
    \/ SkipUnused
    \/ UrlContinue
    \/ UrlBail
    \/ RefuseOverwrite
    \/ EncodeFails
    \/ RenderInject
    \/ LoopDone
    \/ WriteOutput
    \/ ReturnError

SpecRun == InitRun /\ [][NextRun]_vars

----------------------------------------------------------------------------
(* The pure functions of util.rs and config.rs, each applied to drawn inputs *)

\* the other state, idle while a pure function is applied
PureIdle ==
    /\ marker = MarkerQR
    /\ replacement = ImgTag
    /\ SubstIdle
    /\ InlineIdle
    /\ InheritIdle
    /\ ConfigIdle
    /\ RunIdle

\* the largest dimension drawn, next to DEFAULT_SIZE
MaxDim == 6

\* Option<u32> values of fit.width and fit.height
Dims == {None} \cup {Some(v) : v \in (0..MaxDim) \cup {DEFAULT_SIZE}}

InitFit ==
    /\ pc = "fit"
    /\ fit_in \in [width : Dims, height : Dims]
    /\ dims_out = None
    /\ flags_in = ShapeFlags_default
    /\ shape_out = None
    /\ scanned = << >>
    /\ dupe_out = None
    /\ PathIdle
    /\ PureIdle

\* a call of pass_fit_dims (util.rs:30-47)
PassFitDims ==
    /\ pc = "fit"
    /\ dims_out' = Some(pass_fit_dims(fit_in))
    /\ pc' = "returned"
    /\ UNCHANGED <<marker, replacement, substVars, inlineVars, inheritVars,
                   configVars, runVars, fit_in, flags_in, shape_out, scanned,
                   dupe_out, pathVars>>

NextFit == PassFitDims

SpecFit == InitFit /\ [][NextFit]_vars

\* every value of ShapeFlags (config.rs:52-66)
AllShapeFlags ==
    [square : BOOLEAN, circle : BOOLEAN, rounded_square : BOOLEAN,
     vertical : BOOLEAN, horizontal : BOOLEAN, diamond : BOOLEAN]

InitShape ==
    /\ pc = "shape"
    /\ flags_in \in AllShapeFlags
    /\ shape_out = None
    /\ fit_in = FitConfig_default
    /\ dims_out = None
    /\ scanned = << >>
    /\ dupe_out = None
    /\ PathIdle
    /\ PureIdle

\* a call of ShapeFlags::to_shape (config.rs:71-85)
ToShape ==
    /\ pc = "shape"
    /\ shape_out' = Some(to_shape(flags_in))
    /\ pc' = "returned"
    /\ UNCHANGED <<marker, replacement, substVars, inlineVars, inheritVars,
                   configVars, runVars, fit_in, dims_out, flags_in, scanned,
                   dupe_out, pathVars>>

NextShape == ToShape

SpecShape == InitShape /\ [][NextShape]_vars

\* the longest sequence of profiles scanned
MaxScanned == 4

\* the markers of the scanned profiles
ScannedMarkers == {None, Some("{{QR_CODE}}"), Some("{{QR_A}}"), Some("{{QR_B}}")}

\* profiles that differ in their marker
ScannedProfiles == {[Profile_default EXCEPT !.marker = m] : m \in ScannedMarkers}

InitDup ==
    /\ pc = "scan"
    /\ scanned \in SeqsUpTo(ScannedProfiles, MaxScanned)
    /\ dupe_out = None
    /\ fit_in = FitConfig_default
    /\ dims_out = None
    /\ flags_in = ShapeFlags_default
    /\ shape_out = None
    /\ PathIdle
    /\ PureIdle

\* a call of QrConfig::duplicate_marker_from (config.rs:282-294)
DuplicateMarkerFrom ==
    /\ pc = "scan"
    /\ dupe_out' = Some(duplicate_marker_from(scanned))
    /\ pc' = "returned"
    /\ UNCHANGED <<marker, replacement, substVars, inlineVars, inheritVars,
                   configVars, runVars, fit_in, dims_out, flags_in, shape_out,
                   scanned, pathVars>>

NextDup == DuplicateMarkerFrom

SpecDup == InitDup /\ [][NextDup]_vars

\* the longest text drawn between the braces of a marker
MaxBody == 4

\* the characters of the markers drawn: braces, an upper-case and a
\* lower-case letter, a digit, punctuation, the underscore and a space
SlugAlphabet == {"{", "}", "Q", "a", "1", "-", "_", " "}

SlugBodies == SeqsUpTo(SlugAlphabet, MaxBody)

\* markers with and without the wrapping double braces
SlugMarkers == SlugBodies \cup {<<"{", "{">> \o b \o <<"}", "}">> : b \in SlugBodies}

InitSlug ==
    /\ pc = "slug"
    /\ marker_in \in SlugMarkers
    /\ slug_out = None
    /\ path_in = [src_dir |-> << >>, qr_path |-> None, marker |-> << >>]
    /\ path_out = None
    /\ fit_in = FitConfig_default
    /\ dims_out = None
    /\ flags_in = ShapeFlags_default
    /\ shape_out = None
    /\ scanned = << >>
    /\ dupe_out = None
    /\ PureIdle

\* a call of slug_from_marker (util.rs:88-108)
SlugFromMarker ==
    /\ pc = "slug"
    /\ slug_out' = Some(slug_from_marker(marker_in))
    /\ pc' = "returned"
    /\ UNCHANGED <<marker, replacement, substVars, inlineVars, inheritVars,
                   configVars, runVars, fit_in, dims_out, flags_in, shape_out,
                   scanned, dupe_out, marker_in, path_in, path_out>>

NextSlug == SlugFromMarker

SpecSlug == InitSlug /\ [][NextSlug]_vars

\* source directories: relative, absolute, and another relative one
SrcDirs == {SrcDir, BookRoot \o SrcDir, <<<<"d", "o", "c", "s">>>>}

\* the values of qr-path: none, relative ones and an absolute one
QrPaths ==
    {None} \cup {Some(chars(q)) : q \in {"qr/custom.png", "qr/a.png", "/abs/b.png", "qr/shared"}}

PathMarkers ==
    {chars(k) : k \in {"{{QR_CODE}}", "{{QR_A}}", "{{QR_B}}", "{{qr-code}}", "{{QR_FOOTER}}"}}

InitPath ==
    /\ pc = "path"
    /\ path_in \in [src_dir : SrcDirs, qr_path : QrPaths, marker : PathMarkers]
    /\ path_out = None
    /\ marker_in = << >>
    /\ slug_out = None
    /\ fit_in = FitConfig_default
    /\ dims_out = None
    /\ flags_in = ShapeFlags_default
    /\ shape_out = None
    /\ scanned = << >>
    /\ dupe_out = None
    /\ PureIdle

\* a call of resolve_profile_path (util.rs:169-180)
ResolveProfilePath ==
    /\ pc = "path"
    /\ path_out' = Some(resolve_profile_path(path_in.src_dir, path_in.qr_path, path_in.marker))
    /\ pc' = "returned"
    /\ UNCHANGED <<marker, replacement, substVars, inlineVars, inheritVars,
                   configVars, runVars, fit_in, dims_out, flags_in, shape_out,
                   scanned, dupe_out, marker_in, slug_out, path_in>>

NextPath == ResolveProfilePath

SpecPath == InitPath /\ [][NextPath]_vars

----------------------------------------------------------------------------
(* Statements about replace_outside_inline_code (SpecInline)                *)

\* lengths of the maximal backtick runs of s, in order
RECURSIVE RunLengths(_)
RunLengths(s) ==
    IF s = << >> THEN << >>
    ELSE IF s[1] = BT
         THEN LET n == RunFrom(s, 1, BT)
              IN  <<n>> \o RunLengths(SubSeq(s, n + 1, Len(s)))
         ELSE RunLengths(Tail(s))

\* the span a sequence of runs leaves open: a run opens a span when none is
\* open, and only a run of the same length closes it
RECURSIVE OpenSpan(_)
OpenSpan(rs) ==
    IF rs = << >> THEN None
    ELSE LET before == OpenSpan(SubSeq(rs, 1, Len(rs) - 1))
             k == rs[Len(rs)]
         IN  IF before = None THEN Some(k)
             ELSE IF before[1] = k THEN None
             ELSE before

\* is an inline span open at offset q of l (l[q] is no backtick)?
SpanOpenAt(l, q) == OpenSpan(RunLengths(SubSeq(l, 1, q - 1))) # None

\* length of the stretch without backticks that starts at offset i
RECURSIVE TextRunFrom(_, _)
TextRunFrom(s, i) ==
    IF i <= Len(s) /\ s[i] # BT THEN 1 + TextRunFrom(s, i + 1) ELSE 0

\* replace-all: the leftmost occurrence, then the rest of the text after it
RECURSIVE ReplaceAll(_, _, _)
ReplaceAll(s, m, r) ==
    IF ~Contains(s, m) THEN s
    ELSE LET p == CHOOSE i \in 1..Len(s) :
                      /\ StartsWithAt(s, i, m)
                      /\ \A j \in 1..(i - 1) : ~StartsWithAt(s, j, m)
         IN  SubSeq(s, 1, p - 1) \o r
                 \o ReplaceAll(SubSeq(s, p + Len(m), Len(s)), m, r)

\* the line rewritten segment by segment: backtick runs and stretches inside
\* an open span verbatim, the other stretches with every marker replaced
RECURSIVE SegmentsFrom(_, _, _, _)
SegmentsFrom(l, i, m, r) ==
    IF i > Len(l) THEN << >>
    ELSE LET n == IF l[i] = BT THEN RunFrom(l, i, BT) ELSE TextRunFrom(l, i)
             seg == SubSeq(l, i, i + n - 1)
         IN  (IF l[i] = BT \/ SpanOpenAt(l, i) THEN seg ELSE ReplaceAll(seg, m, r))
                 \o SegmentsFrom(l, i + n, m, r)

SpanRuleOutput(l, m, r) == SegmentsFrom(l, 1, m, r)

\* C3: a run of k backticks opens an inline span when none is open and only a
\* later run of exactly k closes it; the marker is replaced exactly where no
\* span is open; every backtick run is copied verbatim. So the result is the
\* line rewritten segment by segment under that rule.
Thm_C3_InlineSpanRule ==
    pc = "line_done" =>
        /\ result = Some(SpanRuleOutput(line, marker, replacement))
        /\ RunLengths(result[1]) = RunLengths(line)

\* C3 witness: the marker inside single backticks came back unchanged
Wit_C3_MarkerInInlineCode ==
    /\ pc = "line_done"
    /\ marker = MarkerQR
    /\ line = <<BT>> \o MarkerQR \o <<BT>>
    /\ result = Some(line)

\* offsets where the marker occurs literally
Occurrences(l, m) == {i \in 1..Len(l) : StartsWithAt(l, i, m)}

NonOverlapping(P, m) == \A p, q \in P : p < q => p + Len(m) <= q

\* l from offset i on, with the occurrences at the offsets P replaced
RECURSIVE SubstAt(_, _, _, _, _)
SubstAt(l, i, P, m, r) ==
    IF i > Len(l) THEN << >>
    ELSE IF i \in P THEN r \o SubstAt(l, i + Len(m), P, m, r)
         ELSE <<l[i]>> \o SubstAt(l, i + 1, P, m, r)

\* C6: replacement is literal and one pass, left to right: the result is the
\* line with a set P of non-overlapping literal occurrences replaced and every
\* other character kept in order (the inserted text is in the result as it
\* is, not rescanned), and an occurrence is in P exactly when no span is open
\* at it and it does not overlap an earlier member of P.
Thm_C6_OnePassLiteral ==
    pc = "line_done" =>
        \E P \in SUBSET Occurrences(line, marker) :
            /\ NonOverlapping(P, marker)
            /\ result = Some(SubstAt(line, 1, P, marker, replacement))
            /\ \A q \in Occurrences(line, marker) :
                   q \in P <=>
                       /\ ~SpanOpenAt(line, q)
                       /\ ~\E p \in P : p < q /\ q < p + Len(marker)

\* C6 witness: overlapping occurrences, and a replacement that holds the marker
Wit_C6_OverlapNoRescan ==
    /\ pc = "line_done"
    /\ marker = MarkerQQ
    /\ replacement = <<"x","Q","Q","x">>
    /\ line = <<"Q","Q","Q">>
    /\ result = Some(<<"x","Q","Q","x","Q">>)

----------------------------------------------------------------------------
(* Statements about replace_markers_outside_code (Spec)                     *)

\* a fence delimiter line: after at most three leading spaces, a run of three
\* or more identical backticks or tildes
DelimiterAt(b, k, c) ==
    /\ Len(b) >= k + 3
    /\ \A j \in 1..k : b[j] = " "
    /\ \A j \in (k + 1)..(k + 3) : b[j] = c

IsDelimiter(b) == \E k \in 0..3 : \E c \in {BT, TILDE} : DelimiterAt(b, k, c)

DelimStart(b) == CHOOSE k \in 0..3 : \E c \in {BT, TILDE} : DelimiterAt(b, k, c)
DelimChar(b) == b[DelimStart(b) + 1]
DelimRun(b) == RunFrom(b, DelimStart(b) + 1, DelimChar(b))
DelimInfo(b) == SubSeq(b, DelimStart(b) + DelimRun(b) + 1, Len(b))

\* the info string begins with the pseudo-fence keyword, whatever its case,
\* after trimming
BeginsWithAdmonish(info) ==
    LET t == trim(info) IN
    /\ Len(t) >= Len(Admonish)
    /\ \A j \in 1..Len(Admonish) : char_to_ascii_lowercase(t[j]) = Admonish[j]

Outside == None
InFence(c, n) == Some([c |-> c, n |-> n])

\* the state of the fence state machine after the first k lines of ls
RECURSIVE FenceAfter(_, _)
FenceAfter(ls, k) ==
    IF k = 0 THEN Outside
    ELSE LET before == FenceAfter(ls, k - 1)
             b == line_body(ls[k])
         IN  IF ~IsDelimiter(b) THEN before
             ELSE IF before = Outside
                  THEN IF BeginsWithAdmonish(DelimInfo(b)) THEN Outside
                       ELSE InFence(DelimChar(b), DelimRun(b))
                  ELSE IF DelimChar(b) = before[1].c /\ DelimRun(b) >= before[1].n
                       THEN Outside
                       ELSE before

\* every line that holds the marker lies strictly between a delimiter that
\* opened a fence of three backticks and the delimiter that closes it
MarkerOnlyInClosedFence ==
    \A k \in 1..Len(lines) :
        Contains(lines[k], marker) =>
            /\ FenceAfter(lines, k - 1) = InFence(BT, 3)
            /\ FenceAfter(lines, k) = InFence(BT, 3)
            /\ \E j \in (k + 1)..Len(lines) : FenceAfter(lines, j) = Outside

\* C1: a document whose marker occurs only inside closed three-backtick fences
\* is returned byte for byte; and on a plain-text line outside any fence every
\* occurrence of the marker outside inline code is replaced.
Thm_C1_FencedUnchangedPlainReplaced ==
    /\ [](pc = "done" /\ MarkerOnlyInClosedFence => out = content)
    /\ [][Reading /\ FenceAfter(lines, idx - 1) = Outside /\ ~IsDelimiter(cur_body)
            => out' = out \o SpanRuleOutput(cur_body, marker, replacement) \o cur_nl]_vars

\* C1 witness: fence, marker, fence came back unchanged
Wit_C1_FencedRoundTrip ==
    /\ pc = "done"
    /\ content = <<BT, BT, BT, NL>> \o MarkerQR \o <<NL, BT, BT, BT, NL>>
    /\ out = content

\* the delimiter read now closes the fence the scanner is in
ClosesCurrentFence ==
    /\ IsDelimiter(cur_body)
    /\ DelimChar(cur_body) = fence_char
    /\ DelimRun(cur_body) >= fence_len

\* C2: in InFence(c, n) every line is copied as it is, and the state stays
\* InFence(c, n) unless the line is a delimiter of character c and run length
\* at least n, which leads back to Outside.
Thm_C2_FenceStateMachine ==
    [][Reading /\ in_fence =>
          /\ out' = out \o lines[idx]
          /\ IF ClosesCurrentFence
             THEN ~in_fence'
             ELSE in_fence' /\ fence_char' = fence_char /\ fence_len' = fence_len]_vars

\* C2 witness: a four-backtick fence survived a three-backtick delimiter and
\* the marker line after it was copied
Wit_C2_ShorterRunKeepsFence ==
    /\ pc = "scan"
    /\ idx = 4
    /\ content = <<BT, BT, BT, BT, NL, BT, BT, BT, NL>> \o MarkerQR
    /\ in_fence /\ fence_char = BT /\ fence_len = 4
    /\ out = content

\* line k is a content line of an admonish block: no delimiter itself, and
\* the nearest delimiter before it is an admonish delimiter read Outside
AdmonishContentLine(k) ==
    /\ ~IsDelimiter(line_body(lines[k]))
    /\ \E j \in 1..(k - 1) :
          /\ IsDelimiter(line_body(lines[j]))
          /\ BeginsWithAdmonish(DelimInfo(line_body(lines[j])))
          /\ FenceAfter(lines, j - 1) = Outside
          /\ \A i \in (j + 1)..(k - 1) : ~IsDelimiter(line_body(lines[i]))

\* C4: from Outside an admonish delimiter does not enter InFence, and on the
\* content lines of its block the marker is replaced outside inline code.
Thm_C4_AdmonishIsNoFence ==
    /\ [][Reading /\ ~in_fence /\ IsDelimiter(cur_body)
              /\ BeginsWithAdmonish(DelimInfo(cur_body))
            => ~in_fence']_vars
    /\ [][Reading /\ AdmonishContentLine(idx)
            => out' = out \o SpanRuleOutput(cur_body, marker, replacement) \o cur_nl]_vars

\* C4 witness: the marker under an admonish delimiter was replaced
Wit_C4_MarkerInAdmonishBlock ==
    /\ idx = 3
    /\ content = <<TILDE, TILDE, TILDE>> \o Admonish \o <<NL>> \o MarkerQR \o <<NL>>
    /\ ~in_fence
    /\ out = <<TILDE, TILDE, TILDE>> \o Admonish \o <<NL>> \o ImgTag \o <<NL>>

\* C5 as stated: every delimiter line, whatever its info string and whatever
\* the scanner state, is copied to the output unchanged.
Orig_C5_EveryDelimiterCopied ==
    [][Reading /\ IsDelimiter(cur_body) => out' = out \o lines[idx]]_vars

\* C5 amended: a delimiter line is copied unchanged when it is read inside a
\* fence or its info string does not begin with admonish; an admonish
\* delimiter read Outside is scanned as ordinary text.
Thm_C5_DelimiterCopiedUnlessAdmonish ==
    [][Reading /\ IsDelimiter(cur_body) =>
          IF in_fence \/ ~BeginsWithAdmonish(DelimInfo(cur_body))
          THEN out' = out \o lines[idx]
          ELSE out' = out \o SpanRuleOutput(cur_body, marker, replacement) \o cur_nl]_vars

\* C5 witness: a delimiter that holds the marker opened a fence and was copied
Wit_C5_DelimiterWithMarkerCopied ==
    /\ idx = 2
    /\ content = <<TILDE, TILDE, TILDE, " ">> \o MarkerQR \o <<NL>>
    /\ in_fence
    /\ out = content

\* the bodies of the lines of s, read character by character
RECURSIVE BodiesOf(_, _)
BodiesOf(s, cur) ==
    IF s = << >> THEN (IF cur = << >> THEN << >> ELSE <<cur>>)
    ELSE IF s[1] = NL THEN <<cur>> \o BodiesOf(Tail(s), << >>)
         ELSE BodiesOf(Tail(s), Append(cur, s[1]))

\* s with every line rewritten on its own, each from a closed inline state
RECURSIVE EachLineAlone(_, _, _, _)
EachLineAlone(s, cur, m, r) ==
    IF s = << >> THEN SpanRuleOutput(cur, m, r)
    ELSE IF s[1] = NL
         THEN SpanRuleOutput(cur, m, r) \o <<NL>> \o EachLineAlone(Tail(s), << >>, m, r)
         ELSE EachLineAlone(Tail(s), Append(cur, s[1]), m, r)

NoDelimiterLine(s) ==
    \A k \in 1..Len(BodiesOf(s, << >>)) : ~IsDelimiter(BodiesOf(s, << >>)[k])

\* C7: inline-span state never carries across lines: in a document without
\* fences every line is rewritten as if it stood alone, so a backtick run left
\* open on one line does not suppress substitution on the next.
Thm_C7_InlineStatePerLine ==
    pc = "done" /\ NoDelimiterLine(content)
        => out = EachLineAlone(content, << >>, marker, replacement)

\* C7 witness: the marker was replaced on the line after an unclosed backtick
Wit_C7_ReplacedAfterUnclosedRun ==
    /\ pc = "done"
    /\ content = <<BT, "x", NL>> \o MarkerQR
    /\ out = <<BT, "x", NL>> \o ImgTag

----------------------------------------------------------------------------
(* Statements about QrConfig::inherit (SpecInherit)                         *)

\* C8: the merged profile has exactly the override's marker and output path,
\* whatever the base holds; neither is taken from the base.
Thm_C8_MarkerAndPathFromOverride ==
    pc = "inherited" =>
        /\ merged[1].marker = child.marker
        /\ merged[1].qr_path = child.qr_path

\* C8 witness: the base has a marker and a path, the override has no path, and
\* the merged profile has none
Wit_C8_BasePathNotInherited ==
    /\ pc = "inherited"
    /\ base.marker # None /\ base.qr_path # None
    /\ child.marker # None /\ child.qr_path = None
    /\ merged[1].qr_path = None
    /\ merged[1].marker = child.marker /\ merged[1].marker # base.marker

ScalarFields ==
    {"enable", "url", "margin", "background", "module",
     "background_rgba", "module_rgba"}

\* C9: every field but marker and path is the override's when the override
\* sets it and the base's otherwise; width and height each on its own; the
\* shape selector as a whole: the override's if it sets any flag, else the
\* base's.
Thm_C9_FieldwiseInheritance ==
    pc = "inherited" =>
        /\ \A f \in ScalarFields :
              merged[1][f] = IF child[f] # None THEN child[f] ELSE base[f]
        /\ \A d \in {"width", "height"} :
              merged[1].fit[d] = IF child.fit[d] # None THEN child.fit[d]
                                 ELSE base.fit[d]
        /\ \A f \in ShapeFlagNames :
              merged[1].shape[f] = IF \E g \in ShapeFlagNames : child.shape[g]
                                   THEN child.shape[f]
                                   ELSE base.shape[f]

\* C9 witness: the override sets only the square flag and the width, the base
\* the circle flag: no flag of the base survives, and the width is the
\* override's
Wit_C9_ShapeAsAUnit ==
    /\ pc = "inherited"
    /\ base.shape.circle /\ child.shape.square /\ ~child.shape.circle
    /\ child.fit.width # None /\ child.fit.height = None
    /\ merged[1].shape = child.shape
    /\ merged[1].fit = [width |-> child.fit.width, height |-> None]

----------------------------------------------------------------------------
(* Statements about the profile set (SpecProfiles)                          *)

\* a comes before b in lexicographic (byte) order
LexBefore(a, b) ==
    \E k \in 1..Len(b) :
        /\ Len(a) >= k - 1
        /\ \A j \in 1..(k - 1) : a[j] = b[j]
        /\ \/ Len(a) = k - 1
           \/ Len(a) >= k /\ CharCode(a[k]) < CharCode(b[k])

NamedWithMarker(c) == {n \in DOMAIN c.custom : c.custom[n].marker # None}

\* ps is: the default profile or nothing, then one profile for every named
\* override of c that has a marker, by name in lexicographic order, and
\* nothing else; every profile has a marker
OrderedProfileSet(ps, c) ==
    LET V == NamedWithMarker(c)
        off == Len(ps) - Cardinality(V)
        place(n) == off + Cardinality({m \in V : LexBefore(m, n)}) + 1
    IN  /\ off \in {0, 1}
        /\ off = 1 =>
              /\ ps[1].marker = Some(DefaultMarker)
              /\ ps[1].url = c.url /\ ps[1].enable = c.enable
              /\ ps[1].qr_path = c.qr_path
        /\ \A n \in V :
              /\ ps[place(n)].marker = c.custom[n].marker
              /\ ps[place(n)].qr_path = c.custom[n].qr_path
        /\ \A i \in 1..Len(ps) : ps[i].marker # None

\* C10: the profile set is the default profile, when included, then one merged
\* profile for every named override that has a marker, in lexicographic
\* order of the names; an override without a marker is not in it, and every
\* profile in it has a marker.
Thm_C10_ProfileSetOrdered ==
    /\ pc = "queued" => OrderedProfileSet(profiles, cfg)
    /\ valid_profiles # None => OrderedProfileSet(valid_profiles[1], cfg)

\* C10 witness: the override named B comes before the one named ab, after
\* the default profile, and the one named a, which has no marker, is left out
Wit_C10_DefaultThenByName ==
    /\ pc = "queued"
    /\ DOMAIN cfg.custom = {<<"B">>, <<"a">>, <<"a", "b">>}
    /\ cfg.custom[<<"a">>].marker = None
    /\ cfg.custom[<<"a", "b">>].marker = Some("{{QR_A}}")
    /\ cfg.custom[<<"B">>].marker = Some("{{QR_B}}")
    /\ Len(profiles) = 3
    /\ profiles[1].marker = Some(DefaultMarker)
    /\ profiles[2].marker = Some("{{QR_B}}")
    /\ profiles[3].marker = Some("{{QR_A}}")

\* C11: a profile with neither a payload (url) nor an explicit output path
\* is dropped by the resolver: it is in no profile list, neither the one
\* the loop of run_impl iterates nor the one QrConfig::profiles returns.
Orig_C11_IncompleteProfileDropped ==
    LET incomplete(p) == p.url = None /\ p.qr_path = None IN
    /\ pc = "queued" => \A i \in 1..Len(profiles) : ~incomplete(profiles[i])
    /\ valid_profiles # None =>
          \A i \in 1..Len(valid_profiles[1]) : ~incomplete(valid_profiles[1][i])

----------------------------------------------------------------------------
(* Statements about run_preprocessor_once and run_impl (SpecRun)            *)

\* the documents of the tree: the chapters at every depth, in reading order
RECURSIVE Documents(_)
Documents(items) ==
    IF items = << >> THEN << >>
    ELSE (IF items[1].kind = "Chapter"
          THEN <<items[1]>> \o Documents(items[1].sub_items)
          ELSE << >>)
         \o Documents(Tail(items))

OccursInTree(m) ==
    \E k \in 1..Len(Documents(book)) : Contains(Documents(book)[k].content, m)

\* C12: a step of the loop at a profile that is disabled, or whose marker is
\* in no document of the tree, goes to the next profile and does nothing
\* else: no payload resolved, no path recorded, no encoder call, no file
\* written, no document changed.
Thm_C12_NoWorkForSkippedProfiles ==
    [][ (InLoop /\ (~Profile_is_enabled(profile) \/ ~OccursInTree(profile_marker)))
        => /\ next_profile' = next_profile + 1
           /\ UNCHANGED <<pc, book, fs, path_to_marker, resolved, encoded,
                          injected, stdout>> ]_vars

\* C12 witness: the loop is past a disabled profile whose marker is in a
\* chapter, and no payload was resolved for it
Wit_C12_DisabledProfilePassed ==
    /\ pc = "loop"
    /\ next_profile = 3
    /\ ~Profile_is_enabled(profiles[2])
    /\ marker_in_book(book, chars(profiles[2].marker[1]))
    /\ \A k \in 1..Len(resolved) : resolved[k] # 2
    /\ path_to_marker # << >>

InSeq(x, sq) == \E k \in 1..Len(sq) : sq[k] = x

\* the payload of the i-th profile cannot be resolved
Unresolvable(i) == ~is_ok(resolve_url(profiles[i].url, localhost_qr, github_repository))

\* the payload of the i-th profile is resolved and the encoder rejects it
Unencodable(i) ==
    /\ ~Unresolvable(i)
    /\ ~QRBuilder_build_ok(resolve_url(profiles[i].url, localhost_qr, github_repository)[2])

\* C13: a profile whose payload cannot be resolved is neither encoded nor
\* substituted. Under Continue the loop goes on: the run fails only if an
\* encoder call fails, and when it ends well every later enabled profile
\* whose marker is in a chapter has been processed. Under Bail the run ends
\* with an error at that profile: nothing is resolved after it and no book
\* is written.
Thm_C13_FailureModeSwitch ==
    \A k \in 1..Len(resolved) :
        LET i == resolved[k] IN
        Unresolvable(i) =>
            /\ ~InSeq(i, encoded)
            /\ ~InSeq(i, injected)
            /\ on_failure = "Continue" =>
                  /\ next_profile > i
                  /\ pc \in {"failed", "exit1"} =>
                        \E j \in (i + 1)..Len(profiles) :
                            InSeq(j, encoded) /\ Unencodable(j)
                  /\ pc \in {"ok", "exit0"} =>
                        \A j \in (i + 1)..Len(profiles) :
                            (/\ Profile_is_enabled(profiles[j])
                             /\ marker_in_book(book, chars(profiles[j].marker[1])))
                            => InSeq(j, resolved)
            /\ on_failure = "Bail" =>
                  /\ pc \in {"failed", "exit1"}
                  /\ next_profile = i
                  /\ k = Len(resolved)
                  /\ stdout = None

\* C13 witness: under Continue the first profile had no payload, the third
\* was encoded and substituted, and the book was written
Wit_C13_ContinueSkipsOne ==
    /\ on_failure = "Continue"
    /\ pc = "exit0"
    /\ InSeq(1, resolved) /\ Unresolvable(1)
    /\ InSeq(3, injected)
    /\ stdout # None

\* the image write_qr_png makes for the i-th profile (preprocessor.rs:249-257)
ImageOf(i) ==
    LET p == profiles[i]
        d == pass_fit_dims(p.fit)
    IN  png_bytes(resolve_url(p.url, localhost_qr, github_repository)[2],
                  d[1], d[2],
                  IF p.margin = None THEN MarginFallback ELSE p.margin[1],
                  to_shape(p.shape), background_color(p), module_color(p))

\* the output path of the i-th profile (preprocessor.rs:219-221)
PathOf(i) ==
    resolve_profile_path(SrcDir, as_chars(profiles[i].qr_path),
                         chars(profiles[i].marker[1]))

\* the i-th profile got as far as its output path
ReachedPath(i) == InSeq(i, resolved) /\ ~Unresolvable(i)

\* C14: when two profiles with distinct markers resolve to the same output
\* path, a collision warning is logged, the run does not fail, and the file
\* at that path holds the image of the later of the two.
Orig_C14_LastWriterWins ==
    pc \in {"ok", "exit0"} =>
        \A i, j \in 1..Len(profiles) :
            (/\ i < j
             /\ ReachedPath(i) /\ ReachedPath(j)
             /\ profiles[i].marker # profiles[j].marker
             /\ PathOf(i) = PathOf(j)
             /\ \A l \in (j + 1)..Len(profiles) : ReachedPath(l) => PathOf(l) # PathOf(j))
            => /\ \E w \in 1..Len(warnings) : warnings[w][1] = "collision"
               /\ png_out(BookRoot, PathOf(j)) \in DOMAIN fs
               /\ fs[png_out(BookRoot, PathOf(j))] = ImageOf(j)

\* the text has an occurrence of m outside code
OccursOutsideCode(text, m) == replace_markers_outside_code(text, m, <<"#">>) # text

\* C15: once the encoder has succeeded for a profile and the substitution has
\* run, no document of the tree, at any depth and with or without a path,
\* has the profile's marker outside code.
Orig_C15_EveryDocumentSubstituted ==
    \A k \in 1..Len(injected) :
        \A d \in 1..Len(Documents(book)) :
            ~OccursOutsideCode(Documents(book)[d].content,
                               chars(profiles[injected[k]].marker[1]))

\* C16: with a malformed qr table the resolution fails with an error: no
\* profile is built or processed and the run does not end well.
Orig_C16_MalformedConfigFails ==
    qr_table = "malformed" =>
        /\ profiles = << >>
        /\ resolved = << >> /\ encoded = << >> /\ injected = << >>
        /\ pc \notin {"queued", "loop", "ok", "exit0"}

\* C17: when write_qr_png fails for a profile the run ends there with the
\* error: the profile is the last one looked at, it is not substituted, the
\* loop does not move on, and no book is written to the output.
Thm_C17_EncoderFailureIsFatal ==
    \A k \in 1..Len(encoded) :
        LET i == encoded[k] IN
        Unencodable(i) =>
            /\ pc \in {"failed", "exit1"}
            /\ next_profile = i
            /\ k = Len(encoded)
            /\ resolved[Len(resolved)] = i
            /\ ~InSeq(i, injected)
            /\ stdout = None

\* C17 witness: the encoder failed for the second of three profiles after the
\* first was substituted; the process has ended with the error
Wit_C17_FailureAfterFirstProfile ==
    /\ pc = "exit1"
    /\ Len(profiles) = 3
    /\ encoded = <<1, 2>> /\ Unencodable(2)
    /\ injected = <<1>>
    /\ Profile_is_enabled(profiles[3])
    /\ marker_in_book(book, chars(profiles[3].marker[1]))
    /\ stdout = None

----------------------------------------------------------------------------
(* Statements about duplicate_marker_from (SpecDup), pass_fit_dims (SpecFit) *)
(* and to_shape (SpecShape)                                                  *)

\* the positions of the scanned profiles that have a marker
Present == {k \in 1..Len(scanned) : scanned[k].marker # None}

\* the positions whose marker is held by an earlier position as well
Repeats ==
    {j \in Present : \E i \in Present : i < j /\ scanned[i].marker = scanned[j].marker}

\* the least member of a non-empty set of numbers
Least(S) == CHOOSE k \in S : \A o \in S : k <= o

\* what duplicate_marker_from has to return for the scanned sequence
FirstRepeat == IF Repeats = {} THEN None ELSE scanned[Least(Repeats)].marker

\* C18: duplicate_marker_from returns None exactly when the markers that are
\* present are pairwise distinct; otherwise the marker at the smallest
\* position that repeats an earlier one. Profiles without a marker do not
\* count, and the scanned sequence is never changed.
Thm_C18_FirstRepeatedMarker ==
    /\ [](dupe_out # None =>
            /\ (dupe_out[1] = None <=> Repeats = {})
            /\ dupe_out[1] = FirstRepeat)
    /\ [][scanned' = scanned]_vars

\* C18 witness: A, none, B, B was scanned (the repeat is not of the first
\* marker, and a profile without a marker lies between) and B was returned
Wit_C18_RepeatAfterUnmarked ==
    /\ dupe_out = Some(Some("{{QR_B}}"))
    /\ Len(scanned) = 4
    /\ scanned[1].marker = Some("{{QR_A}}")
    /\ scanned[2].marker = None
    /\ scanned[3].marker = Some("{{QR_B}}")
    /\ scanned[4].marker = Some("{{QR_B}}")

\* a dimension as it leaves pass_fit_dims: zero becomes 200
NonZero(v) == IF v = 0 THEN 200 ELSE v

\* C19: pass_fit_dims returns two non-zero numbers: (200, 200) without
\* dimensions, (v, v) for one dimension v and (w, h) for two, where a
\* zero is replaced by 200.
Thm_C19_FitDimsNonZero ==
    dims_out # None =>
        LET d == dims_out[1]
            w == fit_in.width
            h == fit_in.height
        IN  /\ d[1] # 0 /\ d[2] # 0
            /\ (w = None /\ h = None) => d = <<200, 200>>
            /\ (w # None /\ h = None) => d = <<NonZero(w[1]), NonZero(w[1])>>
            /\ (w = None /\ h # None) => d = <<NonZero(h[1]), NonZero(h[1])>>
            /\ (w # None /\ h # None) => d = <<NonZero(w[1]), NonZero(h[1])>>

\* C19 witness: a height alone was given and is returned as width and height
Wit_C19_MirroredHeight ==
    /\ fit_in = [width |-> None, height |-> Some(3)]
    /\ dims_out = Some(<<3, 3>>)

\* the flags in the order of their precedence, with the shape of each
Precedence ==
    <<"circle", "rounded_square", "vertical", "horizontal", "diamond", "square">>

ShapeOfFlag ==
    <<"Circle", "RoundedSquare", "Vertical", "Horizontal", "Diamond", "Square">>

\* the k-th flag in the order of precedence is set
FlagSet(k) ==
    CASE k = 1 -> flags_in.circle
      [] k = 2 -> flags_in.rounded_square
      [] k = 3 -> flags_in.vertical
      [] k = 4 -> flags_in.horizontal
      [] k = 5 -> flags_in.diamond
      [] k = 6 -> flags_in.square

SetFlags == {k \in 1..Len(Precedence) : FlagSet(k)}

\* C20: to_shape returns the shape of the set flag of highest precedence
\* (circle, rounded-square, vertical, horizontal, diamond, square) and Square
\* when none is set; the square flag never wins over another set flag, and
\* the diamond flag alone gives Diamond.
Thm_C20_ShapePrecedence ==
    shape_out # None =>
        /\ shape_out[1] = IF SetFlags = {} THEN "Square"
                          ELSE ShapeOfFlag[Least(SetFlags)]
        /\ (flags_in.square /\ SetFlags # {6}) => shape_out[1] # "Square"
        /\ SetFlags = {5} => shape_out[1] = "Diamond"

\* C20 witness: the square and diamond flags are both set and Diamond is
\* returned
Wit_C20_DiamondOverSquare ==
    /\ SetFlags = {5, 6}
    /\ shape_out = Some("Diamond")

----------------------------------------------------------------------------
(* Statements about slug_from_marker (SpecSlug)                             *)

\* the marker without surrounding white space and without the braces that
\* wrap it: the opening braces it begins with and the closing ones it ends with
StripWrapping(m) == trim_end_matches(trim_start_matches(trim(m), "{"), "}")

\* a lower-case letter or a digit
IsSlugAlnum(c) == c \in Digits \/ \E k \in 1..26 : Lower[k] = c

\* the maximal runs of letters and digits of s, in order
RECURSIVE AlnumRuns(_)
AlnumRuns(s) ==
    IF s = << >> THEN << >>
    ELSE IF ~IsSlugAlnum(s[1]) THEN AlnumRuns(Tail(s))
    ELSE LET n == CHOOSE n \in 1..Len(s) :
                      /\ \A k \in 1..n : IsSlugAlnum(s[k])
                      /\ n = Len(s) \/ ~IsSlugAlnum(s[n + 1])
         IN  <<SubSeq(s, 1, n)>> \o AlnumRuns(SubSeq(s, n + 1, Len(s)))

\* the runs joined by one underscore each
RECURSIVE JoinRuns(_)
JoinRuns(rs) ==
    IF rs = << >> THEN << >>
    ELSE IF Len(rs) = 1 THEN rs[1]
    ELSE rs[1] \o <<"_">> \o JoinRuns(Tail(rs))

\* the slug as the statement derives it: every maximal run of other
\* characters between two letters or digits becomes one underscore
StatedSlug(m) == JoinRuns(AlnumRuns(to_ascii_lowercase(StripWrapping(m))))

\* C21: the slug is the marker without its wrapping braces, in lower case,
\* with every maximal run of characters that are neither letters nor digits
\* replaced by one underscore and no underscore at either end: it holds
\* only a-z, 0-9 and _, no two underscores in a row, and two letters or
\* digits that a run of other characters separates in the marker are
\* separated by exactly one underscore in the slug.
Orig_C21_SlugOfMarker ==
    slug_out # None =>
        LET g == slug_out[1] IN
        /\ \A k \in 1..Len(g) : IsSlugAlnum(g[k]) \/ g[k] = "_"
        /\ ~Contains(g, <<"_", "_">>)
        /\ g # << >> => g[1] # "_" /\ g[Len(g)] # "_"
        /\ g = StatedSlug(marker_in)

----------------------------------------------------------------------------
(* Statements about resolve_profile_path (SpecPath)                         *)

\* C22: resolve_profile_path returns an absolute qr-path as it is, a
\* relative one under the source directory, and without a qr-path the file
\* qr/<slug>.png under the source directory; with a qr-path the marker has
\* no part in the result, and nothing but the three arguments has.
Thm_C22_PathResolution ==
    path_out # None =>
        LET given == path_in.qr_path
            root == path_str(path_in.src_dir)
            text == path_str(path_out[1])
        IN  /\ (given # None /\ given[1][1] = "/") => text = given[1]
            /\ (given # None /\ given[1][1] # "/") => text = root \o <<"/">> \o given[1]
            /\ given = None =>
                   text = root \o <<"/", "q", "r", "/">>
                               \o slug_from_marker(path_in.marker) \o DotPng
            /\ \A o \in PathMarkers :
                   path_out[1] = resolve_profile_path(path_in.src_dir, given,
                                     IF given = None THEN path_in.marker ELSE o)

\* C22 witness: a relative qr-path was given next to a marker whose derived
\* file is another one, and the path under the source directory is returned
Wit_C22_RelativeOverride ==
    /\ path_in = [src_dir |-> SrcDir, qr_path |-> Some(chars("qr/custom.png")),
                  marker |-> chars("{{QR_A}}")]
    /\ path_out # None
    /\ path_str(path_out[1]) = <<"s", "r", "c", "/">> \o chars("qr/custom.png")

----------------------------------------------------------------------------
(* Statements about the lines after an admonish block (Spec)                *)

\* lines j..k are an admonish block: line j is an admonish delimiter read
\* Outside, line k is the next delimiter, of the same character and without
\* an info string, and the lines between them are content
AdmonishBlock(j, k) ==
    /\ 1 <= j /\ j < k /\ k <= Len(lines)
    /\ IsDelimiter(line_body(lines[j]))
    /\ BeginsWithAdmonish(DelimInfo(line_body(lines[j])))
    /\ FenceAfter(lines, j - 1) = Outside
    /\ \A i \in (j + 1)..(k - 1) : ~IsDelimiter(line_body(lines[i]))
    /\ IsDelimiter(line_body(lines[k]))
    /\ DelimChar(line_body(lines[k])) = DelimChar(line_body(lines[j]))
    /\ trim(DelimInfo(line_body(lines[k]))) = << >>

\* the line read last closed an admonish block
AfterAdmonishBlock == idx > 1 /\ \E j \in 1..(idx - 1) : AdmonishBlock(j, idx - 1)

\* C23: once the closing delimiter of an admonish block is read the scanner
\* is Outside, and on a plain-text line that follows it the marker is
\* replaced outside inline code.
Orig_C23_OutsideAfterAdmonishBlock ==
    /\ [](pc = "scan" /\ AfterAdmonishBlock => ~in_fence)
    /\ [][Reading /\ AfterAdmonishBlock /\ ~IsDelimiter(cur_body)
            => out' = out \o SpanRuleOutput(cur_body, marker, replacement) \o cur_nl]_vars

----------------------------------------------------------------------------
(* Statements about what makes run_impl pass over a profile (SpecRun)       *)

\* the loop goes past the profile it is at without a call of the encoder
PassedOver == next_profile' = next_profile + 1 /\ encoded' = encoded

\* C24: for an enabled profile whose marker is in a chapter and whose
\* payload resolves the encoder is called and, when it succeeds, the marker
\* is substituted, whether or not the image file is already on disk; an
\* enabled profile is passed over only for an unused marker or for an
\* unresolved payload under Continue.
Orig_C24_ExistingFileNeverSkips ==
    [][/\ (Resolving /\ is_ok(payload)) =>
              /\ encoded' = Append(encoded, next_profile)
              /\ QRBuilder_build_ok(payload[2]) =>
                     injected' = Append(injected, next_profile)
       /\ (InLoop /\ Profile_is_enabled(profile) /\ PassedOver) =>
              \/ ~marker_in_book(book, profile_marker)
              \/ ~is_ok(payload) /\ on_failure = "Continue"]_vars

----------------------------------------------------------------------------
(* Statements about the top-level enable flag (SpecRun)                     *)

\* the configuration was read and its top-level enable flag is false
TopLevelDisabled == ctx_cfg # None /\ ctx_cfg[1].enable = Some(FALSE)

\* C25: with the top-level enable flag false the run builds no profile,
\* calls neither resolver, encoder nor substitution, never changes the book
\* or a file, and ends well with the book as it was, also when a named
\* profile sets enable = true.
Thm_C25_DisabledRunIsIdentity ==
    /\ [](TopLevelDisabled =>
            /\ pc \in {"run", "ok", "exit0"}
            /\ profiles = << >>
            /\ resolved = << >> /\ encoded = << >> /\ injected = << >>
            /\ warnings = << >>
            /\ stdout # None => stdout = Some(book))
    /\ [][TopLevelDisabled => UNCHANGED <<book, fs>>]_vars

\* C25 witness: a disabled run has ended well; a named profile sets
\* enable = true and its marker is still in a chapter, and no file exists
Wit_C25_NamedProfileNotProcessed ==
    /\ TopLevelDisabled
    /\ pc = "exit0"
    /\ \E k \in DOMAIN ctx_cfg[1].custom :
          /\ ctx_cfg[1].custom[k].enable = Some(TRUE)
          /\ marker_in_book(book, chars(ctx_cfg[1].custom[k].marker[1]))
    /\ stdout = Some(book)
    /\ fs = << >>

----------------------------------------------------------------------------
(* Statements about the default profile and a bare custom table (SpecRun)   *)

\* run_impl has built its profiles
Built ==
    \/ pc \in {"queued", "loop", "failed", "exit1"}
    \/ pc \in {"ok", "exit0"} /\ ~TopLevelDisabled

\* the names of the entries of the custom table, as deserialized
NamedEntries == IF ctx_cfg = None THEN {} ELSE DOMAIN ctx_cfg[1].custom

\* book.toml has a custom table and no named entry in it
BareCustomOnly == ctx_custom # None /\ NamedEntries = {}

\* C26: the default profile is among the profiles of run_impl exactly when
\* the configuration has no custom table without named entries. With such a
\* table the profiles are empty, no image is written and no chapter changes;
\* with a named entry the default profile is the first profile again.
Thm_C26_BareCustomSuppressesDefault ==
    /\ [](Built =>
            /\ BareCustomOnly =>
                   /\ profiles = << >>
                   /\ encoded = << >> /\ injected = << >>
            /\ ~BareCustomOnly =>
                   /\ profiles # << >>
                   /\ profiles[1] = default_profile(cfg)
                   /\ profiles[1].marker = Some("{{QR_CODE}}")
            /\ (\E k \in 1..Len(profiles) : profiles[k] = default_profile(cfg))
                   <=> ~BareCustomOnly)
    /\ [][BareCustomOnly => UNCHANGED <<book, fs>>]_vars

\* C26 witness: with a bare custom table a run has ended well although
\* {{QR_CODE}} is in a chapter and the payload would resolve: no profile, no
\* file, the book as it was
Wit_C26_BareTableNothingDone ==
    /\ pc = "exit0"
    /\ qr_table = "parsed"
    /\ BareCustomOnly
    /\ github_repository # None
    /\ marker_in_book(book, chars("{{QR_CODE}}"))
    /\ profiles = << >>
    /\ fs = << >>
    /\ stdout = Some(book)

\* C26 witness, second half: with a custom table that has a named entry the
\* default profile comes first and is followed by the named one
Wit_C26_NamedEntryRestoresDefault ==
    /\ Built
    /\ ctx_custom # None
    /\ NamedEntries # {}
    /\ Len(profiles) = 2
    /\ profiles[1].marker = Some("{{QR_CODE}}")
    /\ profiles[2].marker = Some("{{QR_A}}")

====
